---- MODULE Spec2Model ----
(***************************************************************************)
(* A model of libowngit.py: the object store (object_hash, object_write,   *)
(* object_read), the KVLM codec, the tree codec and reference resolution.  *)
(*                                                                         *)
(* Python bytes and str values are sequences of character codes (ASCII).   *)
(* Indices handed to the Python-style helpers are 0-based, as in the       *)
(* source; -1 is the "not found" value of bytes.find.                      *)
(* A Python value that may be None or an exception is a record             *)
(* [kind, val]: kind names the type or the exception, val holds the bytes. *)
(***************************************************************************)
EXTENDS Integers, Sequences, FiniteSets, TLC

(***************************************************************************)
(* Bounds of the model.                                                    *)
(***************************************************************************)
MaxPayloadLen == 1
MaxObjects == 2
MaxShortWrite == 1
MaxLines == 4
MaxEntries == 2
MaxRefs == 2
MaxIndexEntries == 2
RecursionLimit == 4

(***************************************************************************)
(* Character codes used by the source's byte literals.                     *)
(***************************************************************************)
SP == 32
NUL == 0
NL == 10
SLASH == 47

B_blob == <<98, 108, 111, 98>>
B_tree == <<116, 114, 101, 101>>
B_commit == <<99, 111, 109, 109, 105, 116>>
B_tag == <<116, 97, 103>>
Fmts == {B_blob, B_tree, B_commit, B_tag}

HexDigits == <<48, 49, 50, 51, 52, 53, 54, 55, 56, 57, 97, 98, 99, 100, 101, 102>>

(***************************************************************************)
(* Python values.                                                          *)
(***************************************************************************)
PyNone == [kind |-> "None", val |-> <<>>]
PyBytes(b) == [kind |-> "bytes", val |-> b]
PyStr(s) == [kind |-> "str", val |-> s]
Raise(exc) == [kind |-> exc, val |-> <<>>]
Exceptions == {"TypeError", "AssertionError", "IndexError", "ValueError",
               "Exception", "zlib.error", "OSError", "MemoryError",
               "RecursionError", "KeyError", "AttributeError", "NonTermination",
               "FileExistsError", "IsADirectoryError", "UnicodeDecodeError"}
IsRaise(v) == v.kind \in Exceptions

(***************************************************************************)
(* Python sequence primitives: bytes.find, slicing, startswith.            *)
(***************************************************************************)
Min2(a, b) == IF a < b THEN a ELSE b
Max2(a, b) == IF a > b THEN a ELSE b

\* a local variable: v is the value assigned, F what follows the assignment
LetIn(v, F(_)) == F(v)

\* raw.find(b, start): the least index i >= start with raw[i] = b, or -1
\* (a negative start counts from the end, as in Python)
Find(raw, b, start) ==
    LET from == IF start < 0 THEN Max2(start + Len(raw), 0) ELSE start
        hits == {i \in from..(Len(raw) - 1) : raw[i + 1] = b}
    IN IF hits = {} THEN -1 ELSE CHOOSE i \in hits : \A j \in hits : i <= j

\* raw[a:b] with Python's treatment of negative and out-of-range indices
PySlice(raw, a, b) ==
    LET n == Len(raw)
        lo == IF a < 0 THEN Max2(a + n, 0) ELSE Min2(a, n)
        hi == IF b < 0 THEN Max2(b + n, 0) ELSE Min2(b, n)
    IN SubSeq(raw, lo + 1, hi)

\* raw[a:]
PyTail(raw, a) == PySlice(raw, a, Len(raw))

StartsWith(s, p) == Len(p) <= Len(s) /\ SubSeq(s, 1, Len(p)) = p

RECURSIVE Concat(_)
Concat(ss) == IF ss = <<>> THEN <<>> ELSE Head(ss) \o Concat(Tail(ss))

\* str(n).encode() for n >= 0: the decimal digits of n
RECURSIVE StrOfInt(_)
StrOfInt(n) ==
    IF n < 10 THEN <<48 + n>> ELSE Append(StrOfInt(n \div 10), 48 + (n % 10))

IsDigit(c) == c >= 48 /\ c <= 57

RECURSIVE DigitsValue(_)
DigitsValue(ds) ==
    IF ds = <<>> THEN 0
    ELSE 10 * DigitsValue(SubSeq(ds, 1, Len(ds) - 1)) + (ds[Len(ds)] - 48)

RECURSIVE StripSpaces(_)
StripSpaces(s) ==
    IF s = <<>> THEN s
    ELSE IF Head(s) = SP THEN StripSpaces(Tail(s))
    ELSE IF s[Len(s)] = SP THEN StripSpaces(SubSeq(s, 1, Len(s) - 1))
    ELSE s

\* int(b.decode("ascii")): surrounding blanks are ignored, the rest must be digits
ParseInt(b) ==
    LET ds == StripSpaces(b)
    IN IF ds # <<>> /\ \A i \in 1..Len(ds) : IsDigit(ds[i])
       THEN [kind |-> "int", n |-> DigitsValue(ds)]
       ELSE [kind |-> "ValueError", n |-> 0]

(***************************************************************************)
(* Hex strings and raw hash bytes.                                         *)
(***************************************************************************)
IsHexChar(c) == IsDigit(c) \/ (c >= 97 /\ c <= 102) \/ (c >= 65 /\ c <= 70)

\* the value of one hex digit, as int(s, 16) reads it (either case)
HexVal(c) == IF IsDigit(c) THEN c - 48
             ELSE IF c >= 97 THEN c - 87 ELSE c - 55

\* int(sha, 16).to_bytes(20, byteorder="big") for a 40-digit sha
HexToBytes(sha) ==
    [i \in 1..(Len(sha) \div 2) |-> 16 * HexVal(sha[2 * i - 1]) + HexVal(sha[2 * i])]

\* the lowercase hex of a byte string, two digits per byte
BytesToHex(bs) ==
    [i \in 1..(2 * Len(bs)) |->
        LET byte == bs[(i + 1) \div 2]
        IN IF i % 2 = 1 THEN HexDigits[(byte \div 16) + 1]
                        ELSE HexDigits[(byte % 16) + 1]]

\* format(int.from_bytes(bs, "big"), "040x") for at most 20 bytes
FromBytesHex(bs) ==
    BytesToHex([i \in 1..(20 - Len(bs)) |-> 0] \o bs)

\* str.lower() on ASCII
Lower(s) == [i \in 1..Len(s) |-> IF s[i] >= 65 /\ s[i] <= 90 THEN s[i] + 32 ELSE s[i]]

(***************************************************************************)
(* hashlib.sha1 and zlib.  The digest is a 20-byte function of the exact   *)
(* input bytes; the model computes a 20-point polynomial digest in place   *)
(* of SHA-1.  zlib.compress stores the bytes between the two-byte zlib     *)
(* header and a big-endian Adler checksum; zlib.decompress checks both.    *)
(***************************************************************************)
\* x^n modulo 251, by squaring
RECURSIVE PowMod(_, _)
PowMod(x, n) ==
    IF n = 0 THEN 1
    ELSE LET h == PowMod(x, n \div 2)
         IN IF n % 2 = 0 THEN (h * h) % 251 ELSE (((h * h) % 251) * x) % 251

\* the sum of (bytes[j] + 1) * x^j over lo..hi, by halving the range
RECURSIVE DigestSum(_, _, _, _)
DigestSum(bytes, x, lo, hi) ==
    IF lo > hi THEN 0
    ELSE IF lo = hi THEN (bytes[lo] + 1) * PowMod(x, lo)
    ELSE LET mid == (lo + hi) \div 2
         IN DigestSum(bytes, x, lo, mid) + DigestSum(bytes, x, mid + 1, hi)

\* byte i of the digest: the input read as a polynomial, evaluated at i + 1
Sha1Digest(bytes) ==
    [i \in 1..20 |-> (DigestSum(bytes, i + 1, 1, Len(bytes)) + Len(bytes)) % 251]

\* hashlib.sha1(result).hexdigest()
Sha1Hex(bytes) == BytesToHex(Sha1Digest(bytes))

RECURSIVE SumRange(_, _, _)
SumRange(bs, lo, hi) ==
    IF lo > hi THEN 0
    ELSE IF lo = hi THEN bs[lo]
    ELSE LET mid == (lo + hi) \div 2
         IN SumRange(bs, lo, mid) + SumRange(bs, mid + 1, hi)

SumBytes(bs) == SumRange(bs, 1, Len(bs))

Adler(bs) == LET a == (1 + SumBytes(bs)) % 65521 IN <<a \div 256, a % 256>>

ZlibCompress(bs) == <<120, 156>> \o bs \o Adler(bs)

ZlibDecompress(z) ==
    LET n == Len(z)
        body == SubSeq(z, 3, n - 2)
    IN IF n >= 4 /\ SubSeq(z, 1, 2) = <<120, 156>> /\ SubSeq(z, n - 1, n) = Adler(body)
       THEN PyBytes(body)
       ELSE Raise("zlib.error")

(***************************************************************************)
(* KVLM codec: kvlm_parse and kvlm_serialize.  An OrderedDict is the       *)
(* sequence of its items in insertion order; an item is                    *)
(* [key, isNone, isList, vals]: isNone marks the key None (the message),   *)
(* isList tells a list value from a single bytes value.                    *)
(***************************************************************************)
DictHas(dct, key) == \E i \in 1..Len(dct) : ~dct[i].isNone /\ dct[i].key = key

DictHasNone(dct) == \E i \in 1..Len(dct) : dct[i].isNone

DictIndex(dct, key) == CHOOSE i \in 1..Len(dct) : ~dct[i].isNone /\ dct[i].key = key

DictNone(dct) == dct[CHOOSE i \in 1..Len(dct) : dct[i].isNone].vals[1]

\* dct[key] = value for every key, the stored value replaced
DictAddOverwrite(dct, key, value) ==
    IF DictHas(dct, key)
    THEN [dct EXCEPT ![DictIndex(dct, key)] = [@ EXCEPT !.vals = <<value>>]]
    ELSE Append(dct, [key |-> key, isNone |-> FALSE, isList |-> FALSE, vals |-> <<value>>])

\* lines 416-422: a repeated key is promoted to a list, a new key is appended
DictAdd(dct, key, value) ==
    IF DictHas(dct, key)
    THEN LET i == DictIndex(dct, key)
         IN [dct EXCEPT ![i] = [@ EXCEPT !.isList = TRUE, !.vals = Append(@, value)]]
    ELSE Append(dct, [key |-> key, isNone |-> FALSE, isList |-> FALSE, vals |-> <<value>>])

\* line 396: dct[None] = message
DictSetNone(dct, msg) ==
    IF DictHasNone(dct)
    THEN [i \in 1..Len(dct) |-> IF dct[i].isNone THEN [dct[i] EXCEPT !.vals = <<msg>>] ELSE dct[i]]
    ELSE Append(dct, [key |-> <<>>, isNone |-> TRUE, isList |-> FALSE, vals |-> <<msg>>])

\* bytes.replace(b'\n ', b'\n'): left to right, without overlap
RECURSIVE DropContinuation(_)
DropContinuation(v) ==
    IF v = <<>> THEN <<>>
    ELSE IF Len(v) >= 2 /\ v[1] = NL /\ v[2] = SP
         THEN <<NL>> \o DropContinuation(SubSeq(v, 3, Len(v)))
         ELSE <<Head(v)>> \o DropContinuation(Tail(v))

\* bytes.replace(b'\n', b'\n ')
RECURSIVE AddContinuation(_)
AddContinuation(v) ==
    IF v = <<>> THEN <<>>
    ELSE IF Head(v) = NL THEN <<NL, SP>> \o AddContinuation(Tail(v))
    ELSE <<Head(v)>> \o AddContinuation(Tail(v))

\* lines 406-409: the scan for the end of the value.  Its result is
\* [kind, end]; a scan that has made more iterations than raw has positions
\* is repeating a value of end and never leaves the loop.
RECURSIVE kvlm_value_end(_, _, _)
kvlm_value_end(raw, end, iters) ==
    IF iters > Len(raw) + 1 THEN [kind |-> "NonTermination", end |-> end]
    ELSE LET e == Find(raw, NL, end + 1)
         IN IF e + 1 >= Len(raw) THEN [kind |-> "IndexError", end |-> e]
            ELSE IF raw[e + 2] # SP THEN [kind |-> "ok", end |-> e]
            ELSE kvlm_value_end(raw, e, iters + 1)

\* kvlm_parse(raw, start, dct).  depth counts the calls; a parse still
\* recursing after more calls than raw has bytes has come back to a start it
\* already parsed from, and Python ends it with RecursionError.
\* The result is [kind, dct].
RECURSIVE kvlm_parse_at(_, _, _, _)
kvlm_parse_at(raw, start, dct, depth) ==
    LET spc == Find(raw, SP, start)
        nl == Find(raw, NL, start)
    IN IF depth > Len(raw) + 1 THEN [kind |-> "RecursionError", dct |-> dct]
       ELSE IF spc < 0 \/ nl < spc
       THEN IF nl # start THEN [kind |-> "AssertionError", dct |-> dct]
            ELSE [kind |-> "dict", dct |-> DictSetNone(dct, PyTail(raw, start + 1))]
       ELSE LET key == PySlice(raw, start, spc)
                scan == kvlm_value_end(raw, start, 0)
                value == DropContinuation(PySlice(raw, spc + 1, scan.end))
            IN IF scan.kind # "ok" THEN [kind |-> scan.kind, dct |-> dct]
               ELSE kvlm_parse_at(raw, scan.end + 1, DictAdd(dct, key, value), depth + 1)

kvlm_parse(raw) == kvlm_parse_at(raw, 0, <<>>, 0)

\* lines 427-442: the bytes accumulated in ret
RECURSIVE kvlm_fields(_)
kvlm_fields(kvlm) ==
    IF kvlm = <<>> THEN <<>>
    ELSE LET it == Head(kvlm)
         IN (IF it.isNone THEN <<>>
             ELSE Concat([j \in 1..Len(it.vals) |->
                            it.key \o <<SP>> \o AddContinuation(it.vals[j]) \o <<NL>>]))
            \o kvlm_fields(Tail(kvlm))

kvlm_serialize_ret(kvlm) == kvlm_fields(kvlm) \o <<NL>> \o DictNone(kvlm) \o <<NL>>

\* line 444: the bare "return" hands None to the caller
kvlm_serialize(kvlm) ==
    IF ~DictHasNone(kvlm) THEN Raise("KeyError") ELSE PyNone

(***************************************************************************)
(* Tree codec: tree_parse_one, tree_parse, tree_leaf_sort_key,             *)
(* tree_serialize.  A GitTreeLeaf is [mode, path, sha].                    *)
(***************************************************************************)
GitTreeLeaf(mode, path, sha) == [mode |-> mode, path |-> path, sha |-> sha]

\* the result is [kind, pos, leaf]
tree_parse_one(raw, start) ==
    LET x == Find(raw, SP, start)
        mode0 == PySlice(raw, start, x)
        mode == IF Len(mode0) = 5 THEN <<SP>> \o mode0 ELSE mode0
        y == Find(raw, NUL, x)
        path == PySlice(raw, x + 1, y)
        sha == FromBytesHex(PySlice(raw, y + 1, y + 21))
    IN IF ~(x - start = 5 \/ x - start = 6)
       THEN [kind |-> "AssertionError", pos |-> start, leaf |-> GitTreeLeaf(<<>>, <<>>, <<>>)]
       ELSE [kind |-> "ok", pos |-> y + 21, leaf |-> GitTreeLeaf(mode, path, sha)]

\* the result is [kind, items]; iters bounds the while loop as in kvlm_value_end
RECURSIVE tree_parse_from(_, _, _, _)
tree_parse_from(raw, pos, ret, iters) ==
    IF ~(pos < Len(raw)) THEN [kind |-> "list", items |-> ret]
    ELSE IF iters > Len(raw) + 1 THEN [kind |-> "NonTermination", items |-> ret]
    ELSE LetIn(tree_parse_one(raw, pos), LAMBDA one :
            IF one.kind # "ok" THEN [kind |-> one.kind, items |-> ret]
            ELSE tree_parse_from(raw, one.pos, Append(ret, one.leaf), iters + 1))

tree_parse(raw) == tree_parse_from(raw, 0, <<>>, 0)

\* Python's < on str: code point by code point, a proper prefix is smaller
RECURSIVE StrLess(_, _)
StrLess(a, b) ==
    IF b = <<>> THEN FALSE
    ELSE IF a = <<>> THEN TRUE
    ELSE IF Head(a) # Head(b) THEN Head(a) < Head(b)
    ELSE StrLess(Tail(a), Tail(b))

tree_leaf_sort_key_mode(leaf) == leaf.mode

tree_leaf_sort_key(leaf) ==
    IF StartsWith(leaf.mode, <<49, 48>>) THEN leaf.path ELSE leaf.path \o <<SLASH>>

\* list.sort(key=...) is stable: an item goes after every item whose key is
\* not greater than its own
RECURSIVE InsertByKey(_, _)
InsertByKey(sorted, leaf) ==
    IF sorted = <<>> THEN <<leaf>>
    ELSE IF StrLess(tree_leaf_sort_key(leaf), tree_leaf_sort_key(Head(sorted)))
         THEN <<leaf>> \o sorted
         ELSE <<Head(sorted)>> \o InsertByKey(Tail(sorted), leaf)

RECURSIVE SortItems(_)
SortItems(items) ==
    IF items = <<>> THEN <<>>
    ELSE InsertByKey(SortItems(SubSeq(items, 1, Len(items) - 1)), items[Len(items)])

\* lines 559-567: the bytes emitted for the items in the order given
tree_emit(items) ==
    Concat([i \in 1..Len(items) |->
              items[i].mode \o <<SP>> \o items[i].path \o <<NUL>> \o HexToBytes(items[i].sha)])

tree_serialize(items) == tree_emit(SortItems(items))

(***************************************************************************)
(* Objects: GitObject.__init__ and the serialize methods of GitBlob,       *)
(* GitTree, GitCommit and GitTag.  An object is                            *)
(* [fmt, blobdata, items, kvlm]; only the field of its class is used.      *)
(***************************************************************************)
NoObject == [fmt |-> <<>>, blobdata |-> <<>>, items |-> <<>>, kvlm |-> <<>>]

\* object_hash, lines 346-356: the constructor chosen by fmt deserializes
\* data.  The result is [kind, obj].
Construct(fmt, data) ==
    IF fmt = B_commit \/ fmt = B_tag
    THEN LetIn(kvlm_parse(data), LAMBDA p :
            IF p.kind # "dict" THEN [kind |-> p.kind, obj |-> NoObject]
            ELSE [kind |-> "obj", obj |-> [NoObject EXCEPT !.fmt = fmt, !.kvlm = p.dct]])
    ELSE IF fmt = B_tree
    THEN LetIn(tree_parse(data), LAMBDA p :
            IF p.kind # "list" THEN [kind |-> p.kind, obj |-> NoObject]
            ELSE [kind |-> "obj", obj |-> [NoObject EXCEPT !.fmt = fmt, !.items = p.items]])
    ELSE IF fmt = B_blob
    THEN [kind |-> "obj", obj |-> [NoObject EXCEPT !.fmt = fmt, !.blobdata = data]]
    ELSE [kind |-> "Exception", obj |-> NoObject]

\* obj.serialize()
Serialize(obj) ==
    IF obj.fmt = B_blob THEN PyBytes(obj.blobdata)
    ELSE IF obj.fmt = B_tree THEN PyBytes(tree_serialize(obj.items))
    ELSE kvlm_serialize(obj.kvlm)

(***************************************************************************)
(* The object store on disk: objDirs is the set of subdirectories of       *)
(* .git/objects, objFiles maps the path <<dir, name>> of each object file  *)
(* to its bytes.                                                           *)
(***************************************************************************)
ObjectHeaderOffByOne(fmt, data) == fmt \o <<SP>> \o StrOfInt(Len(data) + 1) \o <<NUL>>

\* line 261
ObjectHeader(fmt, data) == fmt \o <<SP>> \o StrOfInt(Len(data)) \o <<NUL>>

\* lines 218 and 267: "objects", sha[0:2], sha[2:]
ObjectPath(sha) == <<PySlice(sha, 0, 2), PyTail(sha, 2)>>

(***************************************************************************)
(* The inputs of the store: payloads handed to object_hash.                *)
(***************************************************************************)
RECURSIVE SeqsUpTo(_, _)
SeqsUpTo(S, n) ==
    IF n = 0 THEN {<<>>}
    ELSE LET shorter == SeqsUpTo(S, n - 1)
         IN shorter \cup {Append(q, c) : q \in shorter, c \in S}

RawHashA == [i \in 1..20 |-> i]
RawHashB == [i \in 1..20 |-> 100 + i]

\* two entries out of canonical order: "100644 b", then "100644 a"
TreeBodyUnsorted ==
    <<49, 48, 48, 54, 52, 52, 32, 98>> \o <<NUL>> \o RawHashA \o <<49, 48, 48, 54, 52, 52, 32, 97>> \o <<NUL>> \o RawHashB

\* one entry whose mode has five digits: "40000 d"
TreeBodyShortMode == <<52, 48, 48, 48, 48, 32, 100>> \o <<NUL>> \o RawHashA

\* "tree a\n\nm": one key and the message
CommitBody == <<116, 114, 101, 101, 32, 97, 10, 10, 109>>

BlobPayloads == SeqsUpTo({97}, MaxPayloadLen)

DataPool == BlobPayloads \cup {TreeBodyUnsorted, TreeBodyShortMode, CommitBody}

\* The digests of the pool's objects are computed once and looked up
\* afterwards; any other input is digested on the spot.
PoolResults ==
    {ObjectHeader(o.fmt, o.data) \o o.data :
        o \in {[fmt |-> c.obj.fmt, data |-> Serialize(c.obj).val] :
                  c \in {x \in {Construct(f, d) : d \in DataPool, f \in Fmts} :
                            x.kind = "obj"}}}

Sha1Memo == [b \in PoolResults |-> Sha1Hex(b)]

Lookup(memo, bytes) == IF bytes \in DOMAIN memo THEN memo[bytes] ELSE Sha1Hex(bytes)

HexDigest(bytes) == Lookup(Sha1Memo, bytes)

\* repo_dir(repo, "objects", d, mkdir): [path, dirs]; path is FALSE for None
repo_dir(dirs, d, mkdir) ==
    IF d \in dirs THEN [path |-> TRUE, dirs |-> dirs]
    ELSE IF mkdir THEN [path |-> TRUE, dirs |-> dirs \cup {d}]
    ELSE [path |-> FALSE, dirs |-> dirs]

\* repo_file(repo, "objects", d, f, mkdir): the path, or None
repo_file(dirs, p, mkdir) ==
    LET rd == repo_dir(dirs, p[1], mkdir)
    IN [path |-> IF rd.path THEN PyStr(p[1] \o <<SLASH>> \o p[2]) ELSE PyNone,
        dirs |-> rd.dirs]

PathExistsNever(files, p) == FALSE

\* line 269: os.path.exists(path)
PathExists(files, p) == p \in DOMAIN files

WriteFile(files, p, bytes) == [q \in DOMAIN files \cup {p} |-> IF q = p THEN bytes ELSE files[q]]

NoFault == [at |-> "none", cut |-> 0]

\* object_write(obj, repo).  fault is what the environment does to the call:
\* nothing, zlib.compress raising once the file is open, or f.write raising
\* after cut bytes reached the file.  The result is
\* [ret, dirs, files, opened, path]: opened tells whether open(path, 'wb')
\* was executed.
object_write(obj, repo, dirs, files, fault) ==
    LetIn(Serialize(obj), LAMBDA data :
    IF data.kind # "bytes"
    THEN [ret |-> IF IsRaise(data) THEN data ELSE Raise("TypeError"),
          dirs |-> dirs, files |-> files, opened |-> FALSE, path |-> <<>>]
    ELSE
    LetIn(ObjectHeader(obj.fmt, data.val) \o data.val, LAMBDA result :
    LetIn(HexDigest(result), LAMBDA sha :
    IF ~repo
    THEN [ret |-> PyStr(sha), dirs |-> dirs, files |-> files, opened |-> FALSE,
          path |-> <<>>]
    ELSE
    LetIn(ObjectPath(sha), LAMBDA p :
    LetIn(repo_file(dirs, p, TRUE), LAMBDA rf :
    LetIn(ZlibCompress(result), LAMBDA z :
    IF PathExists(files, p)
    THEN [ret |-> PyStr(sha), dirs |-> rf.dirs, files |-> files, opened |-> FALSE,
          path |-> p]
    ELSE IF fault.at = "compress"
    THEN [ret |-> Raise("MemoryError"), dirs |-> rf.dirs,
          files |-> WriteFile(files, p, <<>>), opened |-> TRUE, path |-> p]
    ELSE IF fault.at = "write"
    THEN [ret |-> Raise("OSError"), dirs |-> rf.dirs,
          files |-> WriteFile(files, p, SubSeq(z, 1, Min2(fault.cut, Len(z) - 1))),
          opened |-> TRUE, path |-> p]
    ELSE [ret |-> PyStr(sha), dirs |-> rf.dirs,
          files |-> WriteFile(files, p, z), opened |-> TRUE, path |-> p]))))))

\* object_hash(fd, fmt, repo) with data = fd.read()
object_hash(data, fmt, repo, dirs, files, fault) ==
    LetIn(Construct(fmt, data), LAMBDA c :
        IF c.kind # "obj"
        THEN [ret |-> Raise(c.kind), dirs |-> dirs, files |-> files, opened |-> FALSE,
              path |-> <<>>]
        ELSE object_write(c.obj, repo, dirs, files, fault))

\* object_read(repo, sha): None, an exception, or the object built from the
\* payload: [kind |-> its class, val |-> the payload]
object_read(sha, dirs, files) ==
    LetIn(ObjectPath(sha), LAMBDA p :
    LetIn(repo_file(dirs, p, FALSE).path, LAMBDA path :
    IF path.kind = "None" THEN Raise("TypeError")
    ELSE IF ~PathExists(files, p) THEN PyNone
    ELSE
    LetIn(ZlibDecompress(files[p]), LAMBDA raw :
    IF raw.kind # "bytes" THEN raw
    ELSE
    LetIn(Find(raw.val, SP, 0), LAMBDA x :
    LetIn(PySlice(raw.val, 0, x), LAMBDA fmt :
    LetIn(Find(raw.val, NUL, x), LAMBDA y :
    LetIn(ParseInt(PySlice(raw.val, x, y)), LAMBDA size :
    IF size.kind # "int" THEN Raise("ValueError")
    ELSE IF size.n # Len(raw.val) - y - 1 THEN Raise("Exception")
    ELSE IF fmt \notin Fmts THEN Raise("Exception")
    ELSE
    LetIn(PyTail(raw.val, y + 1), LAMBDA payload :
    LetIn(Construct(fmt, payload), LAMBDA c :
    IF c.kind # "obj" THEN Raise(c.kind)
    ELSE [kind |-> IF fmt = B_commit THEN "GitCommit"
                   ELSE IF fmt = B_tree THEN "GitTree"
                   ELSE IF fmt = B_tag THEN "GitTag" ELSE "GitBlob",
          val |-> payload])))))))))

(***************************************************************************)
(* References: ref_resolve, object_resolve, object_find.  files maps the   *)
(* path of each reference file under .git to its text.                     *)
(***************************************************************************)
S_HEAD == <<72, 69, 65, 68>>
S_refs_tags == <<114, 101, 102, 115, 47, 116, 97, 103, 115, 47>>
S_refs_heads == <<114, 101, 102, 115, 47, 104, 101, 97, 100, 115, 47>>
S_ref_colon == <<114, 101, 102, 58, 32>>
S_master == <<109, 97, 115, 116, 101, 114>>
B_object == <<111, 98, 106, 101, 99, 116>>

\* ref_resolve(repo, ref).  depth counts the nested calls; the interpreter
\* ends a recursion deeper than its limit with RecursionError.
RECURSIVE ref_resolve_at(_, _, _)
ref_resolve_at(files, ref, depth) ==
    IF depth > RecursionLimit THEN Raise("RecursionError")
    ELSE IF ref \notin DOMAIN files THEN PyNone
    ELSE LET data == PySlice(files[ref], 0, -1)
         IN IF StartsWith(data, S_ref_colon)
            THEN ref_resolve_at(files, PyTail(data, 5), depth + 1)
            ELSE PyStr(data)

ref_resolve(files, ref) == ref_resolve_at(files, ref, 1)

\* hashRE: ^[0-9A-Fa-f]{4,40}$
HashRE(name) ==
    /\ Len(name) >= 4 /\ Len(name) <= 40
    /\ \A i \in 1..Len(name) : IsHexChar(name[i])

\* "if x:" on a value that is None or a str
Truthy(v) == v.kind = "str" /\ v.val # <<>>

\* lines 805-819: the candidates found among the object files; listing is
\* os.listdir of the object store's subdirectories, as <<dir, name>> pairs in
\* the order the system yields them
HashCandidates(name, dirs, listing) ==
    LET lname == Lower(name)
        prefix == PySlice(lname, 0, 2)
        rem == PyTail(lname, 2)
    IN IF prefix \in dirs
       THEN SelectSeq([i \in 1..Len(listing) |->
                         IF listing[i][1] = prefix /\ StartsWith(listing[i][2], rem)
                         THEN PyStr(prefix \o listing[i][2]) ELSE PyNone],
                      Truthy)
       ELSE <<>>

\* object_resolve(repo, name): [kind, list]; kind "None" is the None returned
\* for a blank name, kind "list" a list of candidates
object_resolve(name, dirs, listing, files) ==
    IF \A i \in 1..Len(name) : name[i] = SP
    THEN [kind |-> "None", list |-> <<>>]
    ELSE IF name = S_HEAD
    THEN LetIn(ref_resolve(files, S_HEAD), LAMBDA h :
            IF IsRaise(h) THEN [kind |-> h.kind, list |-> <<>>]
            ELSE [kind |-> "list", list |-> <<h>>])
    ELSE
    LetIn(HashRE(name), LAMBDA isHash :
    LetIn(IF isHash THEN Lower(name) ELSE name, LAMBDA name2 :
    LetIn(IF isHash THEN HashCandidates(name, dirs, listing) ELSE <<>>, LAMBDA fromHash :
    LetIn(ref_resolve(files, S_refs_tags \o name2), LAMBDA as_tag :
    IF IsRaise(as_tag) THEN [kind |-> as_tag.kind, list |-> <<>>]
    ELSE
    LetIn(ref_resolve(files, S_refs_heads \o name2), LAMBDA as_branch :
    IF IsRaise(as_branch) THEN [kind |-> as_branch.kind, list |-> <<>>]
    ELSE [kind |-> "list",
          list |-> fromHash \o (IF Truthy(as_tag) THEN <<as_tag>> ELSE <<>>)
                            \o (IF Truthy(as_branch) THEN <<as_branch>> ELSE <<>>)])))))

FmtOfClassBlob(kind) == B_blob

FmtOfClass(kind) ==
    IF kind = "GitCommit" THEN B_commit
    ELSE IF kind = "GitTree" THEN B_tree
    ELSE IF kind = "GitTag" THEN B_tag ELSE B_blob

\* obj.kvlm[key].decode("ascii")
KvlmField(payload, key) ==
    LetIn(kvlm_parse(payload).dct, LAMBDA kv :
        IF ~DictHas(kv, key) THEN Raise("KeyError")
        ELSE IF kv[DictIndex(kv, key)].isList THEN Raise("AttributeError")
        ELSE PyStr(kv[DictIndex(kv, key)].vals[1]))

\* lines 847-866: the loop of object_find.  A loop that has read more
\* objects than the store holds is going round a cycle of tags.
RECURSIVE object_find_loop(_, _, _, _, _, _)
object_find_loop(sha, fmt, follow, dirs, files, iters) ==
    IF iters > Cardinality(DOMAIN files) THEN Raise("NonTermination")
    ELSE IF sha.kind # "str" THEN Raise("TypeError")
    ELSE
    LetIn(object_read(sha.val, dirs, files), LAMBDA obj :
    IF IsRaise(obj) THEN obj
    ELSE IF obj.kind = "None" THEN Raise("AttributeError")
    ELSE
    LetIn(FmtOfClass(obj.kind), LAMBDA objfmt :
    IF objfmt = fmt.val THEN sha
    ELSE IF ~follow THEN PyNone
    ELSE IF objfmt = B_tag \/ (objfmt = B_commit /\ fmt.val = B_tree)
    THEN LetIn(KvlmField(obj.val, IF objfmt = B_tag THEN B_object ELSE B_tree),
               LAMBDA next :
            IF IsRaise(next) THEN next
            ELSE object_find_loop(next, fmt, follow, dirs, files, iters + 1))
    ELSE PyNone))

\* object_find(repo, name, fmt, follow), the definition at line 833; fmt is
\* None or the bytes of a type.  The result is kind "return" with the value
\* returned, or the exception raised, with the name and the candidates its
\* message gives, and the arguments of the call.
object_find(name, fmt, follow, dirs, objs, listing, files) ==
    LET out(kind, val, cands) ==
            [kind |-> kind, val |-> val, name |-> name, fmt |-> fmt,
             follow |-> follow, candidates |-> cands]
    IN LetIn(object_resolve(name, dirs, listing, files), LAMBDA sha :
       IF sha.kind \notin {"None", "list"} THEN out(sha.kind, PyNone, <<>>)
       ELSE IF sha.kind = "None" \/ sha.list = <<>>
       THEN out("No such reference", PyNone, <<>>)
       ELSE IF Len(sha.list) > 1
       THEN out("Ambiguous reference", PyNone, sha.list)
       ELSE IF fmt.kind = "None" THEN out("return", sha.list[1], <<>>)
       ELSE LetIn(object_find_loop(sha.list[1], fmt, follow, dirs, objs, 0), LAMBDA r :
               IF IsRaise(r) THEN out(r.kind, PyNone, <<>>)
               ELSE out("return", r, <<>>)))

(***************************************************************************)
(* Checkout: cmd_checkout and tree_checkout.  fs maps each path of the     *)
(* file system, a sequence of names, to a directory or a file.             *)
(***************************************************************************)
DirNode == [kind |-> "dir", data |-> <<>>]
FileNode(bytes) == [kind |-> "file", data |-> bytes]

\* os.path.join(path, name)
DestJoinFlat(path, name) == <<name>>

DestJoin(path, name) == Append(path, name)

FsPut(fs, p, node) == [q \in DOMAIN fs \cup {p} |-> IF q = p THEN node ELSE fs[q]]

FsIsDir(fs, p) == p \in DOMAIN fs /\ fs[p].kind = "dir"

\* os.listdir(p)
FsList(fs, p) == {q \in DOMAIN fs : Len(q) = Len(p) + 1 /\ SubSeq(q, 1, Len(p)) = p}

\* tree_checkout(repo, tree, path) over tree.items: [ret, fs], ret None or
\* the exception that ended it
RECURSIVE tree_checkout(_, _, _, _, _)
RECURSIVE tree_checkout_item(_, _, _, _, _)
tree_checkout_item(fs, item, path, dirs, files) ==
    LetIn(object_read(item.sha, dirs, files), LAMBDA obj :
    LetIn(DestJoin(path, item.path), LAMBDA dest :
    IF IsRaise(obj) THEN [ret |-> obj, fs |-> fs]
    ELSE IF obj.kind = "None" THEN [ret |-> Raise("AttributeError"), fs |-> fs]
    ELSE IF obj.kind = "GitTree"
    THEN IF dest \in DOMAIN fs THEN [ret |-> Raise("FileExistsError"), fs |-> fs]
         ELSE tree_checkout(FsPut(fs, dest, DirNode), tree_parse(obj.val).items,
                            dest, dirs, files)
    ELSE IF obj.kind = "GitBlob"
    THEN IF FsIsDir(fs, dest) THEN [ret |-> Raise("IsADirectoryError"), fs |-> fs]
         ELSE [ret |-> PyNone, fs |-> FsPut(fs, dest, FileNode(obj.val))]
    ELSE [ret |-> PyNone, fs |-> fs]))

tree_checkout(fs, items, path, dirs, files) ==
    IF items = <<>> THEN [ret |-> PyNone, fs |-> fs]
    ELSE LetIn(tree_checkout_item(fs, Head(items), path, dirs, files), LAMBDA r :
            IF IsRaise(r.ret) THEN r
            ELSE tree_checkout(r.fs, Tail(items), path, dirs, files))

checkout_destination_unchecked(fs, path) ==
    [ret |-> PyNone, msg |-> "", fs |-> FsPut(fs, path, DirNode)]

\* lines 639-646: the destination is checked and, when absent, created.
\* [ret, msg, fs]
checkout_destination(fs, path) ==
    IF path \in DOMAIN fs
    THEN IF ~FsIsDir(fs, path)
         THEN [ret |-> Raise("Exception"), msg |-> "Not a directory", fs |-> fs]
         ELSE IF FsList(fs, path) # {}
         THEN [ret |-> Raise("Exception"), msg |-> "Not empty", fs |-> fs]
         ELSE [ret |-> PyNone, msg |-> "", fs |-> fs]
    ELSE [ret |-> PyNone, msg |-> "", fs |-> FsPut(fs, path, DirNode)]

\* lines 633-637: the object named by args.commit, and the tree of a commit.
\* [kind, val] as object_read gives it.
checkout_object(commit, dirs, files, listing, refs) ==
    LetIn(object_find(commit, PyNone, TRUE, dirs, files, listing, refs), LAMBDA f :
    IF f.kind # "return" THEN Raise(IF f.kind \in Exceptions THEN f.kind ELSE "Exception")
    ELSE IF f.val.kind # "str" THEN Raise("TypeError")
    ELSE
    LetIn(object_read(f.val.val, dirs, files), LAMBDA obj :
    IF IsRaise(obj) THEN obj
    ELSE IF obj.kind = "None" THEN Raise("AttributeError")
    ELSE IF obj.kind # "GitCommit" THEN obj
    ELSE LetIn(KvlmField(obj.val, B_tree), LAMBDA t :
            IF IsRaise(t) THEN t ELSE object_read(t.val, dirs, files))))

\* cmd_checkout(args): [ret, msg, read, fs]; read tells that lines 633-637
\* ended without an exception
cmd_checkout(commit, path, fs, dirs, files, listing, refs) ==
    LetIn(checkout_object(commit, dirs, files, listing, refs), LAMBDA obj :
    IF IsRaise(obj) THEN [ret |-> obj, msg |-> "", read |-> FALSE, fs |-> fs]
    ELSE
    LetIn(checkout_destination(fs, path), LAMBDA d :
    IF IsRaise(d.ret) THEN [ret |-> d.ret, msg |-> d.msg, read |-> TRUE, fs |-> fs]
    ELSE IF obj.kind # "GitTree"
    THEN [ret |-> Raise("AttributeError"), msg |-> "", read |-> TRUE, fs |-> d.fs]
    ELSE LetIn(tree_checkout(d.fs, tree_parse(obj.val).items, path, dirs, files),
               LAMBDA r : [ret |-> r.ret, msg |-> "", read |-> TRUE, fs |-> r.fs])))

(***************************************************************************)
(* The staging index: index_read.  An index file is the 12-byte header,    *)
(* the entries and a 20-byte checksum; an entry is 62 bytes of fixed       *)
(* fields, the name, its NUL and the padding to a multiple of eight.       *)
(***************************************************************************)
\* the largest value of the 12-bit name length: a name at least this long
SentinelLen == 4095

S_DIRC == <<68, 73, 82, 67>>

\* int.from_bytes(bs, "big")
RECURSIVE from_bytes(_)
from_bytes(bs) ==
    IF bs = <<>> THEN 0
    ELSE 256 * from_bytes(SubSeq(bs, 1, Len(bs) - 1)) + bs[Len(bs)]

\* n.to_bytes(w, "big")
to_bytes(n, w) == [i \in 1..w |-> (n \div (256 ^ (w - i))) % 256]

\* bytes.decode("utf8") of one- and two-byte sequences: a lead byte
\* 0xC2..0xDF takes the continuation byte 0x80..0xBF after it
IsCont(b) == b >= 128 /\ b <= 191
IsLead2(b) == b >= 194 /\ b <= 223

DecodeUtf8(bs) ==
    IF \A i \in 1..Len(bs) : bs[i] < 128 THEN PyStr(bs)
    ELSE IF \A i \in 1..Len(bs) :
                \/ bs[i] < 128
                \/ IsLead2(bs[i]) /\ i < Len(bs) /\ IsCont(bs[i + 1])
                \/ IsCont(bs[i]) /\ i > 1 /\ IsLead2(bs[i - 1])
         THEN LET starts == {i \in 1..Len(bs) : ~IsCont(bs[i])}
                  At(k) == CHOOSE i \in starts :
                               Cardinality({j \in starts : j < i}) = k - 1
              IN PyStr([k \in 1..Cardinality(starts) |->
                           LetIn(At(k), LAMBDA i :
                               IF bs[i] < 128 THEN bs[i]
                               ELSE 64 * (bs[i] - 192) + (bs[i + 1] - 128))])
         ELSE Raise("UnicodeDecodeError")

\* lines 910-940: the fields of a GitIndexEntry
GitIndexEntry(ctime, mtime, dev, ino, mode_type, mode_perms, uid, gid, fsize, sha, flag_assume_valid, flag_stage, name) ==
    [ctime |-> ctime, mtime |-> mtime, dev |-> dev, ino |-> ino,
     mode_type |-> mode_type, mode_perms |-> mode_perms, uid |-> uid,
     gid |-> gid, fsize |-> fsize, sha |-> sha,
     flag_assume_valid |-> flag_assume_valid, flag_stage |-> flag_stage,
     name |-> name]

\* lines 944-955
GitIndex(version, entries) ==
    [kind |-> "GitIndex", val |-> <<>>, version |-> version, entries |-> entries]

\* lines 1036-1038 with the scan cut off at the 12-bit length
long_name_truncated(content, idx) ==
    [kind |-> "ok", raw_name |-> PySlice(content, idx, idx + SentinelLen),
     idx |-> idx + SentinelLen + 1]

\* lines 1031-1038: the name is ended by the first NUL at or after 0xFFF bytes
long_name(content, idx) ==
    LetIn(Find(content, NUL, idx + SentinelLen), LAMBDA null_idx :
        [kind |-> "ok", raw_name |-> PySlice(content, idx, null_idx),
         idx |-> null_idx + 1])

\* lines 1027-1030: the name has the length the flags give, and a NUL after it
short_name(content, idx, name_length) ==
    IF idx + name_length >= Len(content)
    THEN [kind |-> "IndexError", raw_name |-> <<>>, idx |-> idx]
    ELSE IF content[idx + name_length + 1] # NUL
    THEN [kind |-> "AssertionError", raw_name |-> <<>>, idx |-> idx]
    ELSE [kind |-> "ok", raw_name |-> PySlice(content, idx, idx + name_length),
          idx |-> idx + name_length + 1]

\* line 1047: 8 * ceil(idx / 8)
AlignUp8(idx) == 8 * ((idx + 7) \div 8)

\* lines 978-1062: one turn of the loop, from the entry at idx; the result
\* is the entry and the index the next turn starts at, or the exception
index_read_entry(content, idx) ==
    LET Field(a, b) == from_bytes(PySlice(content, idx + a, idx + b))
        Failed(exc) == [kind |-> exc, idx |-> idx, long |-> FALSE]
        unused == Field(24, 26)
        mode == Field(26, 28)
        flags == Field(60, 62)
        name_length == flags % 4096
    IN IF unused # 0 THEN Failed("AssertionError")
       ELSE IF (mode \div 4096) \notin {8, 10, 14} THEN Failed("AssertionError")
       ELSE IF (flags \div 16384) % 2 = 1 THEN Failed("AssertionError")
       ELSE LetIn(IF name_length < SentinelLen
                  THEN short_name(content, idx + 62, name_length)
                  ELSE long_name(content, idx + 62), LAMBDA nm :
            IF nm.kind # "ok" THEN Failed(nm.kind)
            ELSE LetIn(DecodeUtf8(nm.raw_name), LAMBDA name :
                 IF IsRaise(name) THEN Failed(name.kind)
                 ELSE [kind |-> "entry", idx |-> AlignUp8(nm.idx),
                       long |-> name_length >= SentinelLen,
                       entry |-> GitIndexEntry(
                           <<Field(0, 4), Field(4, 8)>>,
                           <<Field(8, 12), Field(12, 16)>>,
                           Field(16, 20), Field(20, 24),
                           mode \div 4096, mode % 512,
                           Field(28, 32), Field(32, 36), Field(36, 40),
                           FromBytesHex(PySlice(content, idx + 40, idx + 60)),
                           (flags \div 32768) % 2 = 1,
                           (flags % 16384) - (flags % 4096),
                           name.val)]))

\* lines 967-972: the header; the result is the version and the count
index_read_header(raw) ==
    IF PySlice(raw, 0, 4) # S_DIRC
    THEN [kind |-> "AssertionError", version |-> 0, count |-> 0]
    ELSE IF from_bytes(PySlice(raw, 4, 8)) # 2
    THEN [kind |-> "AssertionError", version |-> 0, count |-> 0]
    ELSE [kind |-> "ok", version |-> from_bytes(PySlice(raw, 4, 8)),
          count |-> from_bytes(PySlice(raw, 8, 12))]

VARIABLES objDirs, objFiles, last

\* the KVLM codec at work: the body as the lines it was put together from,
\* the result of kvlm_parse, the result of kvlm_serialize
VARIABLES kvLines, kvParsed, kvOut, kvPc

\* the tree codec at work: the items a GitTree holds, the bytes
\* tree_serialize returned, the items tree_parse read back
VARIABLES trItems, trRaw, trParsed, trPc

\* the reference files under .git, and the last object_find: its arguments
\* and its outcome
VARIABLES refFiles, found

\* ref_resolve at work: the reference each nested call was given, and the
\* value the outermost call ended with
VARIABLES rrStack, rrRet, rrPc

\* processes running object_write at the same time: for each its position
\* in the function, its local variables and what the call ended with
VARIABLES writers

\* the file system outside .git, and the last cmd_checkout: its arguments,
\* the file system it started from and what it ended with
VARIABLES worktree, co

\* the file .git/index, the entries that were staged into it, and index_read
\* at work: its position, its local variables and what it ended with
VARIABLES indexFile, indexSrc, ix

\* kvlm_parse at work, one step at a time: the bytes, the arguments of the
\* call in progress, the scan's position and the one before it, the depth of
\* the recursion and what the outermost call ended with
VARIABLES kp

storeVars == <<objDirs, objFiles, last>>
wrVars == <<writers>>
coVars == <<worktree, co>>
ixVars == <<indexFile, indexSrc, ix>>
kpVars == <<kp>>
extVars == <<wrVars, coVars, ixVars, kpVars>>
refVars == <<refFiles, found, rrStack, rrRet, rrPc>>
kvVars == <<kvLines, kvParsed, kvOut, kvPc>>
trVars == <<trItems, trRaw, trParsed, trPc>>

IdleKv ==
    /\ kvLines = <<>>
    /\ kvParsed = [kind |-> "None", dct |-> <<>>]
    /\ kvOut = PyNone
    /\ kvPc = "idle"

IdleTree ==
    /\ trItems = <<>>
    /\ trRaw = PyNone
    /\ trParsed = [kind |-> "None", items |-> <<>>]
    /\ trPc = "idle"

NoFiles == [p \in {} |-> <<>>]

\* line 138: repo_create writes HEAD
HeadFile == [p \in {S_HEAD} |-> S_ref_colon \o S_refs_heads \o S_master \o <<NL>>]

NoFind == [kind |-> "none", val |-> PyNone, name |-> <<>>, fmt |-> PyNone,
           follow |-> TRUE, candidates |-> <<>>]

IdleFind == found = NoFind

IdleRef ==
    /\ rrStack = <<>>
    /\ rrRet = PyNone
    /\ rrPc = "idle"

IdleRefs == refFiles = HeadFile /\ IdleFind /\ IdleRef

Procs == {1, 2}

NoWriter == [pc |-> "idle", data |-> <<>>, result |-> <<>>, sha |-> <<>>,
             path |-> <<>>, ret |-> PyNone]

IdleWriters == writers = [p \in Procs |-> NoWriter]

NoCheckout == [pc |-> "idle", commit |-> <<>>, path |-> <<>>, before |-> NoFiles,
               ret |-> PyNone, msg |-> "", read |-> FALSE]

IdleCheckout == worktree = NoFiles /\ co = NoCheckout

NoIndexRun == [pc |-> "idle", raw |-> <<>>, version |-> 0, count |-> 0, i |-> 0,
               idx |-> 0, entries |-> <<>>, ret |-> PyNone, stdout |-> <<>>]

IdleIndex == indexFile = PyNone /\ indexSrc = <<>> /\ ix = NoIndexRun

NoParse == [pc |-> "idle", raw |-> <<>>, start |-> 0, end |-> 0, prev |-> 0,
            dct |-> <<>>, depth |-> 0, ret |-> "None"]

IdleParse == kp = NoParse

IdleExt == IdleWriters /\ IdleCheckout /\ IdleIndex /\ IdleParse

EmptyStore ==
    /\ objDirs = {}
    /\ objFiles = NoFiles
    /\ last = [op |-> "init", fmt |-> <<>>, data |-> <<>>, repo |-> FALSE,
               sha |-> <<>>, ret |-> PyNone, opened |-> FALSE, again |-> FALSE,
               absent |-> FALSE, path |-> <<>>]

\* a repository as repo_create leaves it: .git/objects exists and is empty
InitStore == EmptyStore /\ IdleKv /\ IdleTree /\ IdleRefs /\ IdleExt

\* cmd_hash_object: object_hash(fd, fmt, repo), which ends in object_write
HashObject(data, fmt, repo, fault) ==
    \E r \in {object_hash(data, fmt, repo, objDirs, objFiles, fault)} :
       /\ Cardinality(DOMAIN r.files) <= MaxObjects
       /\ UNCHANGED <<kvVars, trVars, refVars, extVars>>
       /\ objDirs' = r.dirs
       /\ objFiles' = r.files
       /\ last' = [op |-> "object_hash", fmt |-> fmt, data |-> data, repo |-> repo,
                   sha |-> <<>>, ret |-> r.ret, opened |-> r.opened,
                   again |-> /\ repo /\ last.op = "object_hash" /\ last.repo
                             /\ last.ret.kind = "str"
                             /\ last.fmt = fmt /\ last.data = data,
                   absent |-> FALSE, path |-> r.path]

ObjectHash(data, fmt, repo) == HashObject(data, fmt, repo, NoFault)

\* the same call, with the environment failing it after the file was opened
ObjectHashFails(data, fmt, fault) ==
    /\ fault.at # "none"
    /\ HashObject(data, fmt, TRUE, fault)
    /\ IsRaise(last'.ret)
    /\ last'.opened

\* cat_file and the other readers: object_read(repo, sha)
ObjectRead(sha) ==
    /\ UNCHANGED <<kvVars, trVars, refVars, extVars>>
    /\ objDirs' = objDirs
    /\ objFiles' = objFiles
    /\ last' = [op |-> "object_read", fmt |-> <<>>, data |-> <<>>, repo |-> TRUE,
                sha |-> sha, ret |-> object_read(sha, objDirs, objFiles),
                opened |-> FALSE, again |-> FALSE,
                absent |-> ~PathExists(objFiles, ObjectPath(sha)),
                path |-> ObjectPath(sha)]

\* the hashes object_hash returns for the inputs of the pool
PoolShas ==
    {r.ret.val : r \in {x \in {object_hash(d, f, FALSE, {}, NoFiles, NoFault) :
                                  d \in DataPool, f \in Fmts} : x.ret.kind = "str"}}

\* a hash that differs from sha in its last digit only: same directory
Sibling(sha) == [sha EXCEPT ![40] = IF @ = 48 THEN 49 ELSE 48]

ReadShas == UNION {{s, Sibling(s)} : s \in PoolShas}

Faults == {[at |-> "compress", cut |-> 0]} \cup {[at |-> "write", cut |-> k] : k \in 0..MaxShortWrite}

NextStore ==
    \/ \E d \in DataPool, f \in Fmts, repo \in BOOLEAN : ObjectHash(d, f, repo)
    \/ \E sha \in ReadShas : ObjectRead(sha)

\* the store under I/O faults, exercised with the blob payloads
FaultShas ==
    {r.ret.val : r \in {x \in {object_hash(d, f, FALSE, {}, NoFiles, NoFault) :
                                  d \in BlobPayloads, f \in Fmts} : x.ret.kind = "str"}}

NextStoreFault ==
    \/ \E d \in BlobPayloads, f \in Fmts, repo \in BOOLEAN : ObjectHash(d, f, repo)
    \/ \E sha \in FaultShas : ObjectRead(sha)
    \/ \E d \in BlobPayloads, f \in Fmts, fault \in Faults : ObjectHashFails(d, f, fault)

vars == <<storeVars, kvVars, trVars, refVars, extVars>>

SpecStore == InitStore /\ [][NextStore]_vars

SpecStoreFault == InitStore /\ [][NextStoreFault]_vars

(***************************************************************************)
(* The KVLM codec at work: GitCommit.deserialize, then                     *)
(* GitCommit.serialize, on a body put together from at most MaxLines lines.*)
(***************************************************************************)
LineKeyA == <<107, 32, 97, 10>>
LineKeyB == <<107, 32, 98, 10>>
LineOther == <<106, 32, 99, 10>>
LineContinued == <<32, 100, 10>>
LineIndented == <<32, 32, 101, 10>>
LineBlank == <<NL>>
LineText == <<109>>

KeyLines == {LineKeyA, LineKeyB, LineOther}
ContinuationLines == {LineContinued, LineIndented}
BodyLines == KeyLines \cup ContinuationLines \cup {LineBlank, LineText}

kvRaw == Concat(kvLines)

\* a commit or tag body: key lines, each with its continuation lines, then
\* the blank line, then the message
WellFormedBody(lines) ==
    \E b \in 1..Len(lines) :
        /\ lines[b] = LineBlank
        /\ b > 1
        /\ lines[1] \in KeyLines
        /\ \A i \in 1..(b - 1) : lines[i] \in KeyLines \cup ContinuationLines

InitKvlm ==
    /\ EmptyStore /\ IdleTree /\ IdleRefs /\ IdleExt
    /\ kvLines \in SeqsUpTo(BodyLines, MaxLines)
    /\ kvParsed = [kind |-> "None", dct |-> <<>>]
    /\ kvOut = PyNone
    /\ kvPc = "body"

\* GitCommit.deserialize(data)
KvlmParse ==
    /\ kvPc = "body"
    /\ kvParsed' = kvlm_parse(kvRaw)
    /\ kvPc' = "parsed"
    /\ UNCHANGED <<kvLines, kvOut, storeVars, trVars, refVars, extVars>>

\* GitCommit.serialize()
KvlmSerialize ==
    /\ kvPc = "parsed"
    /\ kvParsed.kind = "dict"
    /\ kvOut' = kvlm_serialize(kvParsed.dct)
    /\ kvPc' = "serialized"
    /\ UNCHANGED <<kvLines, kvParsed, storeVars, trVars, refVars, extVars>>

NextKvlm == KvlmParse \/ KvlmSerialize

SpecKvlm == InitKvlm /\ [][NextKvlm]_vars

(***************************************************************************)
(* The tree codec at work: a GitTree holding at most MaxEntries items with *)
(* distinct names, in any order; GitTree.serialize, then tree_parse of the *)
(* bytes.                                                                  *)
(***************************************************************************)
Modes == {<<49, 48, 48, 54, 52, 52>>, <<48, 52, 48, 48, 48, 48>>, <<49, 50, 48, 48, 48, 48>>, <<49, 54, 48, 48, 48, 48>>}

Names == {<<97>>, <<97, 46, 98>>, <<97, 48>>}

\* object ids; the raw bytes of the first hold a NUL, a space and a newline
Shas == {BytesToHex([i \in 1..20 |-> IF i = 1 THEN NUL ELSE IF i = 2 THEN SP ELSE i + 7]),
         BytesToHex(RawHashB)}

Leaves == {GitTreeLeaf(m, n, h) : m \in Modes, n \in Names, h \in Shas}

DistinctNames(items) ==
    \A i, j \in 1..Len(items) : i # j => items[i].path # items[j].path

ItemLists == {l \in SeqsUpTo(Leaves, MaxEntries) : DistinctNames(l)}

InitTree ==
    /\ EmptyStore /\ IdleKv /\ IdleRefs /\ IdleExt
    /\ trItems \in ItemLists
    /\ trRaw = PyNone
    /\ trParsed = [kind |-> "None", items |-> <<>>]
    /\ trPc = "held"

\* GitTree.serialize(): obj.items is sorted in place, the bytes are returned
TreeSerialize ==
    /\ trPc = "held"
    /\ trItems' = SortItems(trItems)
    /\ trRaw' = PyBytes(tree_serialize(trItems))
    /\ trPc' = "serialized"
    /\ UNCHANGED <<trParsed, storeVars, kvVars, refVars, extVars>>

\* GitTree.deserialize(data) on those bytes
TreeParse ==
    /\ trPc = "serialized"
    /\ trParsed' = tree_parse(trRaw.val)
    /\ trPc' = "parsed"
    /\ UNCHANGED <<trItems, trRaw, storeVars, kvVars, refVars, extVars>>

NextTree == TreeSerialize \/ TreeParse

SpecTree == InitTree /\ [][NextTree]_vars

(***************************************************************************)
(* Name resolution: object_find over a repository that holds some objects  *)
(* and some reference files.                                               *)
(***************************************************************************)
\* two blobs whose hashes begin with the same four digits
BlobX == <<98, 103, 97>>
BlobY == <<104, 98, 98>>
ResolveBlobs == {BlobX, BlobY}

HashOfBlob(b) == Sha1Hex(ObjectHeader(B_blob, b) \o b)
HashX == HashOfBlob(BlobX)
HashY == HashOfBlob(BlobY)

\* the store after object_write of each blob of S
RECURSIVE StoreAfter(_)
StoreAfter(S) ==
    IF S = {} THEN [dirs |-> {}, files |-> NoFiles]
    ELSE LetIn(CHOOSE x \in S : TRUE, LAMBDA b :
         LetIn(StoreAfter(S \ {b}), LAMBDA rest :
         LetIn(object_hash(b, B_blob, TRUE, rest.dirs, rest.files, NoFault), LAMBDA r :
            [dirs |-> r.dirs, files |-> r.files])))

ResolveStores == {StoreAfter(S) : S \in SUBSET ResolveBlobs}

\* names given to object_find: the common prefix as typed in lowercase and
\* in uppercase, a longer prefix, a branch name, HEAD
Prefix4 == PySlice(HashX, 0, 4)
Prefix4Upper == [i \in 1..4 |-> IF Prefix4[i] >= 97 THEN Prefix4[i] - 32 ELSE Prefix4[i]]
Prefix5 == PySlice(HashY, 0, 5)
RefNames == {Prefix4, Prefix4Upper, S_master}
QueryNames == RefNames \cup {Prefix5, S_HEAD}

\* the text of a reference file: a hash, or an indirection, and a newline
DirectRef(h) == h \o <<NL>>
IndirectRef(target) == S_ref_colon \o target \o <<NL>>

TagPaths == {S_refs_tags \o n : n \in RefNames}
BranchPaths == {S_refs_heads \o n : n \in RefNames}
RefTexts(path) ==
    {DirectRef(HashX), DirectRef(HashY)} \cup
    (IF path \in TagPaths THEN {IndirectRef(S_refs_heads \o S_master)} ELSE {})

\* HEAD as repo_create wrote it, and at most MaxRefs tags and branches
RefConfigs ==
    UNION {{[p \in D \cup {S_HEAD} |-> IF p = S_HEAD THEN HeadFile[S_HEAD] ELSE t[p]] :
               t \in {f \in [D -> UNION {RefTexts(p) : p \in D}] :
                          \A p \in D : f[p] \in RefTexts(p)}} :
           D \in {E \in SUBSET (TagPaths \cup BranchPaths) : Cardinality(E) <= MaxRefs}}

\* os.listdir of the object directories: the files in any order
Listings(files) ==
    {l \in [1..Cardinality(DOMAIN files) -> DOMAIN files] :
        \A p \in DOMAIN files : \E i \in DOMAIN l : l[i] = p}

InitResolve ==
    /\ \E st \in ResolveStores : objDirs = st.dirs /\ objFiles = st.files
    /\ last = [op |-> "init", fmt |-> <<>>, data |-> <<>>, repo |-> FALSE,
               sha |-> <<>>, ret |-> PyNone, opened |-> FALSE, again |-> FALSE,
               absent |-> FALSE, path |-> <<>>]
    /\ refFiles \in RefConfigs
    /\ IdleFind /\ IdleRef /\ IdleKv /\ IdleTree /\ IdleExt

\* object_find(repo, name): fmt is None, as cmd_rev_parse without a type and
\* cmd_tag call it
ObjectFind(name) ==
    /\ \E listing \in Listings(objFiles) :
          found' = object_find(name, PyNone, TRUE, objDirs, objFiles, listing, refFiles)
    /\ UNCHANGED <<storeVars, kvVars, trVars, refFiles, rrStack, rrRet, rrPc, extVars>>

\* object_find(repo, name, fmt, follow): cat-file, ls-tree, rev-parse with a
\* type
ObjectFindTyped(name, fmt, follow) ==
    /\ \E listing \in Listings(objFiles) :
          found' = object_find(name, PyBytes(fmt), follow, objDirs, objFiles,
                               listing, refFiles)
    /\ UNCHANGED <<storeVars, kvVars, trVars, refFiles, rrStack, rrRet, rrPc, extVars>>

NextResolve ==
    \/ \E name \in QueryNames : ObjectFind(name)
    \/ \E name \in QueryNames, fmt \in {B_blob, B_tree}, follow \in BOOLEAN :
          ObjectFindTyped(name, fmt, follow)

SpecResolve == InitResolve /\ [][NextResolve]_vars

(***************************************************************************)
(* ref_resolve, one call at a time, over reference files that point at     *)
(* hashes, at each other, or at nothing.                                   *)
(***************************************************************************)
RefNodes == {S_HEAD, S_refs_heads \o S_master, S_refs_tags \o S_master}

RefGraphs ==
    UNION {[D -> {DirectRef(HashX)} \cup {IndirectRef(n) : n \in RefNodes}] :
              D \in SUBSET RefNodes}

InitRef ==
    /\ EmptyStore /\ IdleKv /\ IdleTree /\ IdleFind /\ IdleRef /\ IdleExt
    /\ refFiles \in RefGraphs

\* ref_resolve(repo, ref) is called
RefResolveCall(ref) ==
    /\ rrPc \in {"idle", "done"}
    /\ rrStack' = <<ref>>
    /\ rrRet' = PyNone
    /\ rrPc' = "running"
    /\ UNCHANGED <<storeVars, kvVars, trVars, refFiles, found, extVars>>

\* the body of the innermost call: it returns, and every caller returns what
\* it returned, or it calls ref_resolve on the reference it read; once the
\* interpreter's limit is reached that call raises RecursionError
RefResolveStep ==
    /\ rrPc = "running"
    /\ LET ref == rrStack[Len(rrStack)]
           data == PySlice(refFiles[ref], 0, -1)
       IN IF ref \notin DOMAIN refFiles
          THEN rrRet' = PyNone /\ rrStack' = <<>> /\ rrPc' = "done"
          ELSE IF ~StartsWith(data, S_ref_colon)
          THEN rrRet' = PyStr(data) /\ rrStack' = <<>> /\ rrPc' = "done"
          ELSE IF Len(rrStack) >= RecursionLimit
          THEN rrRet' = Raise("RecursionError") /\ rrStack' = <<>> /\ rrPc' = "done"
          ELSE rrRet' = rrRet /\ rrStack' = Append(rrStack, PyTail(data, 5))
                  /\ rrPc' = "running"
    /\ UNCHANGED <<storeVars, kvVars, trVars, refFiles, found, extVars>>

NextRef ==
    \/ \E ref \in RefNodes : RefResolveCall(ref)
    \/ RefResolveStep

SpecRef == InitRef /\ [][NextRef]_vars


(***************************************************************************)
(* Two processes in object_write at the same time, on one repository.      *)
(* Each step is one access to the file system.                             *)
(***************************************************************************)
WriterBlobs == {BlobX, BlobY, <<97>>}

WriterStores == {StoreAfter({}), StoreAfter({BlobY})}

InitWriters ==
    /\ \E st \in WriterStores : objDirs = st.dirs /\ objFiles = st.files
    /\ last = [op |-> "init", fmt |-> <<>>, data |-> <<>>, repo |-> FALSE,
               sha |-> <<>>, ret |-> PyNone, opened |-> FALSE, again |-> FALSE,
               absent |-> FALSE, path |-> <<>>]
    /\ writers \in [Procs -> {[NoWriter EXCEPT !.pc = "start", !.data = b] :
                                 b \in WriterBlobs}]
    /\ IdleRefs /\ IdleKv /\ IdleTree /\ IdleCheckout /\ IdleIndex /\ IdleParse

WriterFrame == UNCHANGED <<last, kvVars, trVars, refVars, coVars, ixVars, kpVars>>

\* f.write at offset off of a file: the bytes land there, a gap reads as 0
WriteAt(file, off, bytes) ==
    [i \in 1..Max2(Len(file), off + Len(bytes)) |->
        IF i > off /\ i <= off + Len(bytes) THEN bytes[i - off]
        ELSE IF i <= Len(file) THEN file[i] ELSE 0]

\* lines 259-263: data, result, sha
WriterHash(p) ==
    /\ writers[p].pc = "start"
    /\ \E result \in {ObjectHeader(B_blob, writers[p].data) \o writers[p].data} :
       \E sha \in {HexDigest(result)} :
          writers' = [writers EXCEPT ![p].pc = "repo_dir", ![p].result = result,
                                     ![p].sha = sha, ![p].path = ObjectPath(sha)]
    /\ UNCHANGED <<objDirs, objFiles>>
    /\ WriterFrame

\* repo_dir, line 103: os.path.exists(path) of the subdirectory
WriterDirExists(p) ==
    /\ writers[p].pc = "repo_dir"
    /\ writers' = [writers EXCEPT ![p].pc = IF writers[p].path[1] \in objDirs
                                            THEN "exists" ELSE "makedirs"]
    /\ UNCHANGED <<objDirs, objFiles>>
    /\ WriterFrame

\* repo_dir, line 110: os.makedirs(path), which raises FileExistsError when
\* the directory is there
WriterMakedirs(p) ==
    /\ writers[p].pc = "makedirs"
    /\ IF writers[p].path[1] \in objDirs
       THEN /\ writers' = [writers EXCEPT ![p].pc = "done",
                                          ![p].ret = Raise("FileExistsError")]
            /\ objDirs' = objDirs
       ELSE /\ writers' = [writers EXCEPT ![p].pc = "exists"]
            /\ objDirs' = objDirs \cup {writers[p].path[1]}
    /\ UNCHANGED objFiles
    /\ WriterFrame

\* line 269: os.path.exists(path) of the object file
WriterFileExists(p) ==
    /\ writers[p].pc = "exists"
    /\ writers' = IF PathExists(objFiles, writers[p].path)
                  THEN [writers EXCEPT ![p].pc = "done", ![p].ret = PyStr(writers[p].sha)]
                  ELSE [writers EXCEPT ![p].pc = "open"]
    /\ UNCHANGED <<objDirs, objFiles>>
    /\ WriterFrame

\* line 270: open(path, 'wb') creates the file or truncates it
WriterOpen(p) ==
    /\ writers[p].pc = "open"
    /\ objFiles' = WriteFile(objFiles, writers[p].path, <<>>)
    /\ writers' = [writers EXCEPT ![p].pc = "write"]
    /\ UNCHANGED objDirs
    /\ WriterFrame

\* line 272: the first part of the compressed bytes reaches the file
WriterWrite(p) ==
    /\ writers[p].pc = "write"
    /\ \E z \in {ZlibCompress(writers[p].result)} :
          objFiles' = [objFiles EXCEPT ![writers[p].path] =
                          WriteAt(@, 0, SubSeq(z, 1, Len(z) \div 2))]
    /\ writers' = [writers EXCEPT ![p].pc = "flush"]
    /\ UNCHANGED objDirs
    /\ WriterFrame

\* lines 272-273: the rest reaches the file, the file is closed, sha returned
WriterClose(p) ==
    /\ writers[p].pc = "flush"
    /\ \E z \in {ZlibCompress(writers[p].result)} :
          objFiles' = [objFiles EXCEPT ![writers[p].path] =
                          WriteAt(@, Len(z) \div 2, SubSeq(z, Len(z) \div 2 + 1, Len(z)))]
    /\ writers' = [writers EXCEPT ![p].pc = "done", ![p].ret = PyStr(writers[p].sha)]
    /\ UNCHANGED objDirs
    /\ WriterFrame

NextWriters ==
    \E p \in Procs :
        \/ WriterHash(p)
        \/ WriterDirExists(p)
        \/ WriterMakedirs(p)
        \/ WriterFileExists(p)
        \/ WriterOpen(p)
        \/ WriterWrite(p)
        \/ WriterClose(p)

SpecWriters == InitWriters /\ [][NextWriters]_vars

(***************************************************************************)
(* Checkout into a destination, from a repository whose objects git wrote: *)
(* a commit, its tree, a subtree and two blobs, any of which may be absent. *)
(***************************************************************************)
\* one entry of a tree object as git writes it
TreeEntry(mode, name, sha) == mode \o <<SP>> \o name \o <<NUL>> \o HexToBytes(sha)

ObjectBytes(fmt, body) == ObjectHeader(fmt, body) \o body

CoBlobA == <<97>>
CoBlobB == <<98, 98>>
CoSubtree == TreeEntry(<<49, 48, 48, 54, 52, 52>>, <<102>>, Sha1Hex(ObjectBytes(B_blob, CoBlobB)))
CoTree ==
    TreeEntry(<<49, 48, 48, 54, 52, 52>>, <<97>>, Sha1Hex(ObjectBytes(B_blob, CoBlobA)))
      \o TreeEntry(<<52, 48, 48, 48, 48>>, <<100>>, Sha1Hex(ObjectBytes(B_tree, CoSubtree)))
CoCommit == <<116, 114, 101, 101, 32>> \o Sha1Hex(ObjectBytes(B_tree, CoTree)) \o <<NL, NL, 109>>

CoObjects ==
    {ObjectBytes(B_blob, CoBlobA), ObjectBytes(B_blob, CoBlobB),
     ObjectBytes(B_tree, CoSubtree), ObjectBytes(B_tree, CoTree),
     ObjectBytes(B_commit, CoCommit)}

\* a commit with a parent, a tag of it, a tag of that tag, a tag of a blob
S_object == <<111, 98, 106, 101, 99, 116, 32>>
S_parent == <<10, 112, 97, 114, 101, 110, 116, 32>>
S_type == <<10, 116, 121, 112, 101, 32>>
S_tag == <<10, 116, 97, 103, 32>>

PeelCommit ==
    <<116, 114, 101, 101, 32>> \o Sha1Hex(ObjectBytes(B_tree, CoSubtree))
      \o S_parent \o Sha1Hex(ObjectBytes(B_commit, CoCommit)) \o <<NL, NL, 110>>

TagBody(target, fmt, name) ==
    S_object \o target \o S_type \o fmt \o S_tag \o name \o <<NL, NL, 116>>

PeelTag == TagBody(Sha1Hex(ObjectBytes(B_commit, PeelCommit)), B_commit, <<118, 49>>)
PeelTagOfTag == TagBody(Sha1Hex(ObjectBytes(B_tag, PeelTag)), B_tag, <<118, 50>>)
PeelTagOfBlob == TagBody(Sha1Hex(ObjectBytes(B_blob, CoBlobA)), B_blob, <<118, 98>>)

PeelObjects ==
    CoObjects \cup {ObjectBytes(B_commit, PeelCommit), ObjectBytes(B_tag, PeelTag),
                    ObjectBytes(B_tag, PeelTagOfTag), ObjectBytes(B_tag, PeelTagOfBlob)}

\* the object files of a set of objects, each under the path of its digest
CoPath == [o \in PeelObjects |-> ObjectPath(Sha1Hex(o))]

GitStore(objs) ==
    [dirs |-> {CoPath[o][1] : o \in objs},
     files |-> [p \in {CoPath[o] : o \in objs} |->
                  ZlibCompress(CHOOSE o \in objs : CoPath[o] = p)]]

CheckoutStores == {GitStore(S) : S \in SUBSET CoObjects}

HashCoTree == Sha1Hex(ObjectBytes(B_tree, CoTree))
HashCoCommit == Sha1Hex(ObjectBytes(B_commit, CoCommit))
HashCoBlobA == Sha1Hex(ObjectBytes(B_blob, CoBlobA))

CheckoutNames == {HashCoCommit, HashCoTree, HashCoBlobA, S_HEAD}

\* destinations, and the states a destination is found in
DestW == <<<<119>>>>
DestV == <<<<118>>>>
Dests == {DestW, DestV}

Worktrees ==
    {NoFiles,
     [p \in {DestW} |-> FileNode(<<120>>)],
     [p \in {DestW} |-> DirNode],
     [p \in {DestW, Append(DestW, <<97>>)} |-> IF p = DestW THEN DirNode ELSE FileNode(<<120>>)],
     [p \in {DestW, Append(DestW, <<100>>)} |-> DirNode]}

InitCheckout ==
    /\ \E st \in CheckoutStores : objDirs = st.dirs /\ objFiles = st.files
    /\ last = [op |-> "init", fmt |-> <<>>, data |-> <<>>, repo |-> FALSE,
               sha |-> <<>>, ret |-> PyNone, opened |-> FALSE, again |-> FALSE,
               absent |-> FALSE, path |-> <<>>]
    /\ worktree \in Worktrees
    /\ co = NoCheckout
    /\ IdleRefs /\ IdleKv /\ IdleTree /\ IdleWriters /\ IdleIndex /\ IdleParse

\* cmd_checkout with args.commit and args.path
Checkout(commit, path) ==
    /\ \E listing \in {CHOOSE l \in Listings(objFiles) : TRUE} :
       \E r \in {cmd_checkout(commit, path, worktree, objDirs, objFiles, listing, refFiles)} :
          /\ worktree' = r.fs
          /\ co' = [pc |-> "done", commit |-> commit, path |-> path,
                    before |-> worktree, ret |-> r.ret, msg |-> r.msg, read |-> r.read]
    /\ UNCHANGED <<storeVars, kvVars, trVars, refVars, wrVars, ixVars, kpVars>>

NextCheckout == \E commit \in CheckoutNames, path \in Dests : Checkout(commit, path)

SpecCheckout == InitCheckout /\ [][NextCheckout]_vars

(***************************************************************************)
(* index_read over the index files git writes: the entries staged, in the  *)
(* order of their names, each name with its NUL and padded to a multiple   *)
(* of eight bytes; the length field of a name of 0xFFF bytes or more holds *)
(* 0xFFF.                                                                  *)
(***************************************************************************)
\* str.encode("utf8") for code points below 0x800
RECURSIVE EncodeUtf8Each(_)
EncodeUtf8Each(s) ==
    IF s = <<>> THEN <<>>
    ELSE (IF Head(s) < 128 THEN <<Head(s)>>
          ELSE <<192 + (Head(s) \div 64), 128 + (Head(s) % 64)>>)
         \o EncodeUtf8Each(Tail(s))

EncodeUtf8(s) ==
    IF \A i \in 1..Len(s) : s[i] < 128 THEN s ELSE EncodeUtf8Each(s)

\* the names staged, in byte order: k is the first letter, n the length
AsciiName(k, n) == [i \in 1..n |-> IF i = 1 THEN 96 + k ELSE 97 + (i % 7)]

StagedNames ==
    <<AsciiName(1, 1), <<98, 233>>, AsciiName(3, 4094), AsciiName(4, 4095),
      AsciiName(5, 5000), AsciiName(6, 4096), AsciiName(7, 9)>>

\* a regular file, a symlink and a gitlink
StagedModes == <<<<8, 420>>, <<10, 0>>, <<14, 0>>>>

StagedEntry(k) ==
    GitIndexEntry(<<k, k + 1>>, <<k + 2, 300 + k>>, 2049, 70000 + k,
                  StagedModes[(k % 3) + 1][1], StagedModes[(k % 3) + 1][2],
                  1000, 1000 + k, 256 * k,
                  BytesToHex([i \in 1..20 |-> (16 * k + i) % 256]),
                  k % 3 = 0, 4096 * (k % 4), StagedNames[k])

\* the bytes of one entry
IndexEntryBytes(e) ==
    LetIn(EncodeUtf8(e.name), LAMBDA raw_name :
        to_bytes(e.ctime[1], 4) \o to_bytes(e.ctime[2], 4)
        \o to_bytes(e.mtime[1], 4) \o to_bytes(e.mtime[2], 4)
        \o to_bytes(e.dev, 4) \o to_bytes(e.ino, 4)
        \o to_bytes(0, 2) \o to_bytes(4096 * e.mode_type + e.mode_perms, 2)
        \o to_bytes(e.uid, 4) \o to_bytes(e.gid, 4) \o to_bytes(e.fsize, 4)
        \o HexToBytes(e.sha)
        \o to_bytes((IF e.flag_assume_valid THEN 32768 ELSE 0) + e.flag_stage
                    + Min2(Len(raw_name), SentinelLen), 2)
        \o raw_name
        \o [i \in 1..(8 - ((62 + Len(raw_name)) % 8)) |-> NUL])

\* the checksum that ends the file; index_read does not look at it
IndexChecksum(body) ==
    LetIn(SumBytes(body), LAMBDA sum : [i \in 1..20 |-> (sum + i) % 256])

IndexFileBytes(entries) ==
    LetIn(S_DIRC \o to_bytes(2, 4) \o to_bytes(Len(entries), 4)
          \o Concat([i \in 1..Len(entries) |-> IndexEntryBytes(entries[i])]),
          LAMBDA body : body \o IndexChecksum(body))

IndexSources ==
    {s \in UNION {[1..n -> 1..Len(StagedNames)] : n \in 0..MaxIndexEntries} :
        \A i \in 1..Len(s), j \in 1..Len(s) : i < j => s[i] < s[j]}

\* files index_read gives up on: an index of version 3, and one cut off
\* after its header
OtherIndexFiles ==
    {S_DIRC \o to_bytes(3, 4) \o to_bytes(0, 4) \o [i \in 1..20 |-> i],
     S_DIRC \o to_bytes(2, 4) \o to_bytes(1, 4)}

InitIndex ==
    /\ \/ indexSrc = <<>> /\ indexFile = PyNone
       \/ indexSrc = <<>> /\ \E raw \in OtherIndexFiles : indexFile = PyBytes(raw)
       \/ \E s \in IndexSources :
             /\ indexSrc = [i \in 1..Len(s) |-> StagedEntry(s[i])]
             /\ indexFile = PyBytes(IndexFileBytes(indexSrc))
    /\ ix = [NoIndexRun EXCEPT !.pc = "start"]
    /\ EmptyStore /\ IdleRefs /\ IdleKv /\ IdleTree /\ IdleWriters /\ IdleCheckout /\ IdleParse

IndexFrame ==
    UNCHANGED <<indexFile, indexSrc, storeVars, kvVars, trVars, refVars, wrVars, coVars, kpVars>>

\* lines 957-976: no file is an empty index; else the file is read and its
\* header checked
IndexOpen ==
    /\ ix.pc = "start"
    /\ IF indexFile = PyNone
       THEN ix' = [ix EXCEPT !.pc = "done", !.ret = GitIndex(2, <<>>)]
       ELSE \E h \in {index_read_header(indexFile.val)} :
               IF h.kind # "ok"
               THEN ix' = [ix EXCEPT !.pc = "done", !.raw = indexFile.val,
                                     !.ret = Raise(h.kind)]
               ELSE ix' = [ix EXCEPT !.pc = "loop", !.raw = indexFile.val,
                                     !.version = h.version, !.count = h.count]
    /\ IndexFrame

\* lines 978-1062: one turn of the loop
IndexEntry ==
    /\ ix.pc = "loop"
    /\ ix.i < ix.count
    /\ \E r \in {index_read_entry(PyTail(ix.raw, 12), ix.idx)} :
          IF r.kind # "entry"
          THEN ix' = [ix EXCEPT !.pc = "done", !.ret = Raise(r.kind)]
          ELSE ix' = [ix EXCEPT !.i = @ + 1, !.idx = r.idx,
                                !.entries = Append(@, r.entry),
                                !.stdout = IF r.long THEN Append(@, SentinelLen)
                                           ELSE @]
    /\ IndexFrame

\* line 1064
IndexReturn ==
    /\ ix.pc = "loop"
    /\ ix.i >= ix.count
    /\ ix' = [ix EXCEPT !.pc = "done", !.ret = GitIndex(ix.version, ix.entries)]
    /\ IndexFrame

NextIndex == IndexOpen \/ IndexEntry \/ IndexReturn

SpecIndex == InitIndex /\ [][NextIndex]_vars

(***************************************************************************)
(* object_find with a wanted type, over a store of blobs, trees, commits   *)
(* and tags: all of PeelObjects, or all but one of them.                   *)
(***************************************************************************)
PeelStores == {GitStore(PeelObjects)} \cup {GitStore(PeelObjects \ {o}) : o \in PeelObjects}

HashOf(o) == CoPath[o][1] \o CoPath[o][2]

S_v2 == <<118, 50>>

\* HEAD as repo_create wrote it, and the tag v2 naming the tag of the tag
PeelRefs ==
    [p \in {S_HEAD, S_refs_tags \o S_v2} |->
        IF p = S_HEAD THEN HeadFile[S_HEAD]
        ELSE DirectRef(HashOf(ObjectBytes(B_tag, PeelTagOfTag)))]

PeelNames == {HashOf(o) : o \in PeelObjects \ {ObjectBytes(B_blob, CoBlobB)}} \cup {S_v2}

\* os.listdir: the files in some order, or in the opposite order
RECURSIVE SeqOfSet(_)
SeqOfSet(S) ==
    IF S = {} THEN <<>>
    ELSE LetIn(CHOOSE x \in S : TRUE, LAMBDA x : <<x>> \o SeqOfSet(S \ {x}))

Reversed(s) == [i \in 1..Len(s) |-> s[Len(s) + 1 - i]]

PeelListings(files) ==
    LetIn(SeqOfSet(DOMAIN files), LAMBDA l : {l, Reversed(l)})

InitPeel ==
    /\ \E st \in PeelStores : objDirs = st.dirs /\ objFiles = st.files
    /\ last = [op |-> "init", fmt |-> <<>>, data |-> <<>>, repo |-> FALSE,
               sha |-> <<>>, ret |-> PyNone, opened |-> FALSE, again |-> FALSE,
               absent |-> FALSE, path |-> <<>>]
    /\ refFiles = PeelRefs
    /\ IdleFind /\ IdleRef /\ IdleKv /\ IdleTree /\ IdleExt

\* one command calling object_find(repo, name, fmt, follow)
ObjectFindPeel(name, fmt, follow) ==
    /\ found.kind = "none"
    /\ \E listing \in PeelListings(objFiles) :
          found' = object_find(name, PyBytes(fmt), follow, objDirs, objFiles,
                               listing, refFiles)
    /\ UNCHANGED <<storeVars, kvVars, trVars, refFiles, rrStack, rrRet, rrPc, extVars>>

NextPeel == \E name \in PeelNames, fmt \in Fmts, follow \in BOOLEAN : ObjectFindPeel(name, fmt, follow)

SpecPeel == InitPeel /\ [][NextPeel]_vars

(***************************************************************************)
(* kvlm_parse one step at a time, on the bytes of at most MaxLines lines:  *)
(* a call, each turn of the scan for the end of the value, the value and   *)
(* the recursive call.                                                     *)
(***************************************************************************)
\* a last line that begins with a space and has no newline
LineOpen == <<32, 98>>

ScanLines == {LineKeyA, LineOther, LineContinued, LineBlank, LineText, LineOpen}

InitScan ==
    /\ \E lines \in SeqsUpTo(ScanLines, MaxLines) :
          kp = [NoParse EXCEPT !.pc = "call", !.raw = Concat(lines)]
    /\ EmptyStore /\ IdleRefs /\ IdleKv /\ IdleTree /\ IdleWriters /\ IdleCheckout
    /\ IdleIndex

ScanFrame == UNCHANGED <<storeVars, kvVars, trVars, refVars, wrVars, coVars, ixVars>>

\* lines 382-401: the call looks for the space and the newline; the message
\* ends the parse, a key starts the scan.  A call deeper than the bytes are
\* long is parsing from a start it has parsed from before: the recursion
\* goes on until Python raises RecursionError.
KvCall ==
    /\ kp.pc = "call"
    /\ LET spc == Find(kp.raw, SP, kp.start)
           nl == Find(kp.raw, NL, kp.start)
       IN IF kp.depth > Len(kp.raw) + 1
          THEN kp' = [kp EXCEPT !.pc = "done", !.ret = "RecursionError"]
          ELSE IF spc < 0 \/ nl < spc
          THEN IF nl # kp.start
               THEN kp' = [kp EXCEPT !.pc = "done", !.ret = "AssertionError"]
               ELSE kp' = [kp EXCEPT !.pc = "done", !.ret = "dict",
                                     !.dct = DictSetNone(@, PyTail(kp.raw, kp.start + 1))]
          ELSE kp' = [kp EXCEPT !.pc = "scan", !.end = kp.start, !.prev = kp.start - 1]
    /\ ScanFrame

\* lines 407-409: one turn of "while True"
KvScan ==
    /\ kp.pc = "scan"
    /\ LET e == Find(kp.raw, NL, kp.end + 1)
       IN IF e + 1 >= Len(kp.raw)
          THEN kp' = [kp EXCEPT !.pc = "done", !.ret = "IndexError",
                                !.end = e, !.prev = kp.end]
          ELSE kp' = [kp EXCEPT !.pc = IF kp.raw[e + 2] # SP THEN "value" ELSE "scan",
                                !.end = e, !.prev = kp.end]
    /\ ScanFrame

\* lines 413-424: the value is stored and kvlm_parse called from end + 1
KvValue ==
    /\ kp.pc = "value"
    /\ LET spc == Find(kp.raw, SP, kp.start)
           key == PySlice(kp.raw, kp.start, spc)
           value == DropContinuation(PySlice(kp.raw, spc + 1, kp.end))
       IN kp' = [kp EXCEPT !.pc = "call", !.dct = DictAdd(@, key, value),
                           !.start = kp.end + 1, !.depth = @ + 1]
    /\ ScanFrame

NextScan == KvCall \/ KvScan \/ KvValue

SpecScan == InitScan /\ [][NextScan]_vars

\* the interpreter goes on taking steps
SpecScanFair == SpecScan /\ WF_vars(NextScan)

(***************************************************************************)
(* The object store: claims C1 to C5.                                      *)
(***************************************************************************)
\* the bytes the claims name: "<t> <len(p)>\0<p>"
ClaimedBytes(t, p) == t \o <<32>> \o StrOfInt(Len(p)) \o <<0>> \o p

\* C1: object_hash(p, t) returns the hex digest of "<t> <len(p)>\0<p>", the
\* header followed by the unchanged payload, for each of the four types
\* (stated for the payloads the constructor of t accepts).
C1_HashOfHeaderAndPayload ==
    (last.op = "object_hash" /\ Construct(last.fmt, last.data).kind = "obj")
        => last.ret = PyStr(HexDigest(ClaimedBytes(last.fmt, last.data)))

\* C2: a second object_write of an object right after a first one that
\* returned returns the same hash, opens no file and leaves the store as it was,
\* with the object's file in it.
C2_StoreIdempotent ==
    [][last'.again =>
          /\ last'.ret = last.ret
          /\ ~last'.opened
          /\ objFiles' = objFiles
          /\ objDirs' = objDirs
          /\ last'.path \in DOMAIN objFiles']_vars

C2_Witness == last.again /\ last.ret.kind = "str" /\ last.fmt = B_tree

\* C3: every object file sits at <2 chars>/<38 chars> in an existing
\* directory and decompresses to "<type> <len>\0<payload>" whose digest is
\* the path and whose declared length is the payload's length.
C3_StoreLayout ==
    \A p \in DOMAIN objFiles :
        LET raw == ZlibDecompress(objFiles[p])
            x == Find(raw.val, SP, 0)
            y == Find(raw.val, NUL, 0)
            payload == PyTail(raw.val, y + 1)
        IN /\ Len(p[1]) = 2 /\ Len(p[2]) = 38
           /\ p[1] \in objDirs
           /\ raw.kind = "bytes"
           /\ x >= 0 /\ y > x
           /\ PySlice(raw.val, 0, x) \in Fmts
           /\ PySlice(raw.val, x + 1, y) = StrOfInt(Len(payload))
           /\ HexDigest(raw.val) = p[1] \o p[2]

C3_Witness ==
    \E p, q \in DOMAIN objFiles :
        /\ p # q
        /\ StartsWith(ZlibDecompress(objFiles[p]).val, B_tree)
        /\ StartsWith(ZlibDecompress(objFiles[q]).val, B_blob)

\* C4: object_read of a hash that has no object file returns None, also
\* when the hash's subdirectory does not exist.
C4_ReadAbsentIsNone ==
    (last.op = "object_read" /\ last.absent) => last.ret = PyNone

\* C5: an object write that fails after the existence check leaves no file
\* at the object's path.
C5_FailedWriteLeavesNoFile ==
    (last.op = "object_hash" /\ last.repo /\ last.ret.kind \in {"MemoryError", "OSError"})
        => last.path \notin DOMAIN objFiles

(***************************************************************************)
(* The codecs: claims C6 and C7.                                           *)
(***************************************************************************)
\* C6: for a well-formed commit or tag body b,
\* kvlm_serialize(kvlm_parse(b)) is b, byte for byte.
C6_KvlmRoundTrip ==
    (kvPc = "serialized" /\ WellFormedBody(kvLines)) => kvOut = PyBytes(kvRaw)

\* the orderings of a list of items
Orderings(items) ==
    {l \in [1..Len(items) -> {items[i] : i \in 1..Len(items)}] :
        \A i \in 1..Len(items) : \E j \in 1..Len(items) : l[j] = items[i]}

StoredHashes == {p[1] \o p[2] : p \in DOMAIN objFiles}

\* the candidates as the claim counts them, for the name as it was given
PrefixCandidates(name) ==
    IF HashRE(name) THEN {h \in StoredHashes : StartsWith(h, Lower(name))} ELSE {}

RefCandidates(name) ==
    {r \in {ref_resolve(refFiles, S_refs_tags \o name),
            ref_resolve(refFiles, S_refs_heads \o name)} : Truthy(r)}

CandidateCount(name) ==
    Cardinality(PrefixCandidates(name))
      + (IF Truthy(ref_resolve(refFiles, S_refs_tags \o name)) THEN 1 ELSE 0)
      + (IF Truthy(ref_resolve(refFiles, S_refs_heads \o name)) THEN 1 ELSE 0)

AllCandidates(name) == {PyStr(h) : h \in PrefixCandidates(name)} \cup RefCandidates(name)

\* C8: for a name other than HEAD, object_find(repo, name) without a type
\* fails with not-found naming the name when there is no candidate, returns
\* the hash when there is exactly one, and fails as ambiguous, listing every
\* candidate, when there are more; the candidates are the stored hashes the
\* name is a hex prefix of, refs/tags/<name> and refs/heads/<name>.
C8_CandidateCountDecides ==
    (found.kind # "none" /\ found.fmt.kind = "None" /\ found.name # S_HEAD) =>
        LET n == CandidateCount(found.name)
            all == AllCandidates(found.name)
        IN /\ n = 0 => found.kind = "No such reference"
           /\ n = 1 => found.kind = "return" /\ found.val \in all
           /\ n > 1 => /\ found.kind = "Ambiguous reference"
                       /\ Len(found.candidates) = n
                       /\ \A c \in all : \E i \in DOMAIN found.candidates :
                             found.candidates[i] = c

\* C9: when HEAD points at a branch file that does not exist, as after
\* repo_create, object_find(repo, "HEAD") fails with not-found; it never
\* returns a value that is not a hash.
C9_DanglingHeadNotFound ==
    (found.kind # "none" /\ found.fmt.kind = "None" /\ found.name = S_HEAD) =>
        /\ found.kind = "return" => (found.val.kind = "str" /\ Len(found.val.val) = 40)
        /\ (refFiles[S_HEAD] = IndirectRef(S_refs_heads \o S_master)
              /\ (S_refs_heads \o S_master) \notin DOMAIN refFiles)
             => found.kind = "No such reference"

\* C10: ref_resolve ends, for every configuration of reference files, with a
\* hash or with a resolution failure; indirections that form a cycle are
\* reported as such a failure and are not followed until the interpreter
\* gives up.
C10_CycleIsResolutionFailure ==
    rrPc = "done" => rrRet.kind \in {"str", "None"}

(***************************************************************************)
(* Concurrent writers: claims C11 and C12.                                 *)
(***************************************************************************)
AllDone == \A p \in Procs : writers[p].pc = "done"

\* C11: when two processes write objects whose subdirectory does not exist
\* yet, both calls succeed under every interleaving; neither fails because
\* the other created the directory first.
C11_MkdirRaceTolerated ==
    \A p \in Procs : writers[p].pc = "done" => writers[p].ret.kind = "str"

\* C12: once two concurrent writers have finished, each has returned the
\* hash of its object and the file at that hash's path holds exactly the
\* compressed bytes of the object, whether they wrote the same object or
\* different ones.
C12_WritersConverge ==
    AllDone =>
        \A p \in Procs :
            /\ writers[p].ret = PyStr(writers[p].sha)
            /\ writers[p].path \in DOMAIN objFiles
            /\ objFiles[writers[p].path] = ZlibCompress(writers[p].result)

(***************************************************************************)
(* Checkout: claims C13 and C14.                                           *)
(***************************************************************************)
Under(q, p) == Len(q) > Len(p) /\ SubSeq(q, 1, Len(p)) = p

DestinationRefused(fs, p) ==
    p \in DOMAIN fs /\ (fs[p].kind # "dir" \/ \E q \in DOMAIN fs : Under(q, p))

\* C13: when the destination exists and is not a directory, or is a
\* directory with at least one entry, cmd_checkout of a readable commit or
\* tree fails with "Not a directory" or "Not empty" and leaves the file
\* system as it was; a destination that does not exist or is an empty
\* directory is accepted and is a directory afterwards.
C13_CheckoutPrecondition ==
    (co.pc = "done" /\ co.read) =>
        IF DestinationRefused(co.before, co.path)
        THEN /\ co.ret.kind = "Exception"
             /\ co.msg = IF co.before[co.path].kind # "dir" THEN "Not a directory"
                         ELSE "Not empty"
             /\ worktree = co.before
        ELSE /\ co.msg = ""
             /\ co.path \in DOMAIN worktree /\ worktree[co.path].kind = "dir"

C13_Witness ==
    /\ co.pc = "done" /\ co.read /\ co.msg = "Not empty"
    /\ \E q \in DOMAIN co.before : Under(q, co.path) /\ co.before[q].kind = "dir"

\* the paths a tree stands for, with what is to be found at each
RECURSIVE TreeImage(_, _)
TreeImage(items, path) ==
    UNION {LetIn(object_read(items[i].sha, objDirs, objFiles), LAMBDA obj :
             IF obj.kind = "GitTree"
             THEN {<<Append(path, items[i].path), DirNode>>}
                    \cup TreeImage(tree_parse(obj.val).items, Append(path, items[i].path))
             ELSE {<<Append(path, items[i].path), FileNode(obj.val)>>}) :
           i \in 1..Len(items)}

\* C14: after a checkout of a tree into a destination that did not exist
\* has completed, the destination is a directory holding, for every entry
\* reachable from the tree, a subdirectory for a tree and a file with the
\* blob's bytes for a blob, at the path of the entry names, and nothing
\* else; the rest of the file system is as it was.
C14_CheckoutMirrorsTree ==
    (co.pc = "done" /\ co.ret = PyNone /\ co.path \notin DOMAIN co.before) =>
        /\ co.commit \in {HashCoCommit, HashCoTree}
        /\ LET image == TreeImage(tree_parse(CoTree).items, co.path)
           IN /\ co.path \in DOMAIN worktree /\ worktree[co.path] = DirNode
              /\ \A e \in image : e[1] \in DOMAIN worktree /\ worktree[e[1]] = e[2]
              /\ \A q \in DOMAIN worktree : Under(q, co.path) => \E e \in image : e[1] = q
              /\ \A q \in DOMAIN worktree :
                    (q # co.path /\ ~Under(q, co.path)) =>
                        (q \in DOMAIN co.before /\ worktree[q] = co.before[q])
              /\ \A q \in DOMAIN co.before : q \in DOMAIN worktree

C14_Witness ==
    /\ co.pc = "done" /\ co.ret = PyNone /\ co.path \notin DOMAIN co.before
    /\ co.commit = HashCoCommit
    /\ Append(Append(co.path, <<100>>), <<102>>) \in DOMAIN worktree
    /\ worktree[Append(Append(co.path, <<100>>), <<102>>)] = FileNode(CoBlobB)
    /\ worktree[Append(co.path, <<97>>)] = FileNode(CoBlobA)

\* the bytes of the staged entry j in the file
EntrySize(j) ==
    LetIn(Len(EncodeUtf8(indexSrc[j].name)), LAMBDA n : 62 + n + (8 - ((62 + n) % 8)))

\* where entry j + 1 starts in the content after the header
RECURSIVE EntryEnd(_)
EntryEnd(j) == IF j = 0 THEN 0 ELSE EntryEnd(j - 1) + EntrySize(j)

HasLongName(j) == Len(EncodeUtf8(indexSrc[j].name)) >= SentinelLen

\* C15: an entry whose name is 0xFFF bytes or longer (its length field holds
\* the sentinel) is decoded with its full name, found by the scan for the
\* NUL, and every entry after it is decoded from its own offset: index_read
\* returns the entries that were staged.
C15_LongNameDecoded ==
    \A j \in 1..Len(indexSrc) : HasLongName(j) =>
        /\ \A k \in j..Len(ix.entries) : ix.entries[k] = indexSrc[k]
        /\ ix.pc = "loop" /\ ix.i >= j => ix.idx = EntryEnd(ix.i)
        /\ ix.pc = "done" => /\ ix.ret.kind = "GitIndex"
                             /\ ix.ret.entries = indexSrc

C15_Witness ==
    /\ ix.pc = "done"
    /\ ix.ret.kind = "GitIndex"
    /\ Len(indexSrc) = 2
    /\ Len(indexSrc[1].name) = 5000
    /\ Len(ix.ret.entries[1].name) = 5000
    /\ ix.ret.entries[2] = indexSrc[2]
    /\ ix.stdout # <<>>


\* the key the entries are compared by: the name, and for a directory (mode
\* beginning "04") the name with a "/" after it
DirectoryOnlyKey(leaf) ==
    IF StartsWith(leaf.mode, <<48, 52>>) THEN leaf.path \o <<SLASH>> ELSE leaf.path

\* C16: tree_serialize orders the entries by name, a directory entry (mode
\* beginning "04") compared as its name with a trailing "/", an entry of any
\* other mode, symlinks and submodule links included, by its bare name.
C16_OnlyDirectoriesGetSlash ==
    trPc \in {"serialized", "parsed"} =>
        \A i \in 1..(Len(trItems) - 1) :
            ~StrLess(DirectoryOnlyKey(trItems[i + 1]), DirectoryOnlyKey(trItems[i]))


\* C17: for the name of a call to object_find, whatever its letters,
\* object_resolve probes refs/tags/<name> and refs/heads/<name> with the
\* name as it was given: a tag or a branch of exactly that name that
\* resolves is among the candidates, also when the name is 4 to 40 hex
\* digits with uppercase letters.
C17_RefProbesUseGivenName ==
    (found.kind # "none" /\ found.name # S_HEAD) =>
        LetIn(object_resolve(found.name, objDirs,
                             CHOOSE l \in Listings(objFiles) : TRUE, refFiles),
              LAMBDA r :
                 /\ r.kind = "list"
                 /\ \A c \in RefCandidates(found.name) :
                       \E i \in 1..Len(r.list) : r.list[i] = c)


(***************************************************************************)
(* object_find with a wanted type: claims C18 and C19.                     *)
(***************************************************************************)
\* what git wrote into the store: for each hash the type of the object, the
\* target of a tag, the tree and the parent of a commit
NoHash == <<>>

PeelInfo(o) ==
    IF o = ObjectBytes(B_tag, PeelTagOfTag)
    THEN [fmt |-> B_tag, object |-> HashOf(ObjectBytes(B_tag, PeelTag)), tree |-> NoHash, parent |-> NoHash]
    ELSE IF o = ObjectBytes(B_tag, PeelTag)
    THEN [fmt |-> B_tag, object |-> HashOf(ObjectBytes(B_commit, PeelCommit)), tree |-> NoHash, parent |-> NoHash]
    ELSE IF o = ObjectBytes(B_tag, PeelTagOfBlob)
    THEN [fmt |-> B_tag, object |-> HashCoBlobA, tree |-> NoHash, parent |-> NoHash]
    ELSE IF o = ObjectBytes(B_commit, PeelCommit)
    THEN [fmt |-> B_commit, object |-> NoHash, tree |-> HashOf(ObjectBytes(B_tree, CoSubtree)),
          parent |-> HashCoCommit]
    ELSE IF o = ObjectBytes(B_commit, CoCommit)
    THEN [fmt |-> B_commit, object |-> NoHash, tree |-> HashCoTree, parent |-> NoHash]
    ELSE IF o \in {ObjectBytes(B_tree, CoTree), ObjectBytes(B_tree, CoSubtree)}
    THEN [fmt |-> B_tree, object |-> NoHash, tree |-> NoHash, parent |-> NoHash]
    ELSE [fmt |-> B_blob, object |-> NoHash, tree |-> NoHash, parent |-> NoHash]

InfoOfHash(h) == PeelInfo(CHOOSE o \in PeelObjects : HashOf(o) = h)

IsStored(h) == ObjectPath(h) \in DOMAIN objFiles

\* the one dereference step from h when fmt is wanted: a tag to its target,
\* a commit to its tree when a tree is wanted; NoHash when there is none
PeelStep(h, fmt) ==
    LetIn(InfoOfHash(h), LAMBDA info :
        IF info.fmt = B_tag THEN info.object
        ELSE IF info.fmt = B_commit /\ fmt = B_tree THEN info.tree
        ELSE NoHash)

\* the hashes reached from h by at most n such steps
RECURSIVE PeelChain(_, _, _)
PeelChain(h, fmt, n) ==
    IF h = NoHash THEN {}
    ELSE {h} \cup (IF n = 0 THEN {} ELSE PeelChain(PeelStep(h, fmt), fmt, n - 1))

\* the hash the name resolves to
ResolvedHashes(name) == {c.val : c \in AllCandidates(name)}

\* C18: a hash returned by object_find(repo, name, fmt, follow) with a wanted
\* type names a stored object of exactly that type, reached from the
\* resolved object by tag-to-target steps and, when a tree is wanted, a
\* commit-to-tree step; no parent is followed, and with follow disabled the
\* hash is the resolved one.
C18_PeelReturnsWantedType ==
    (found.kind = "return" /\ found.fmt.kind = "bytes" /\ found.val.kind = "str") =>
        /\ IsStored(found.val.val)
        /\ InfoOfHash(found.val.val).fmt = found.fmt.val
        /\ \E start \in ResolvedHashes(found.name) :
              /\ found.val.val \in PeelChain(start, found.fmt.val, Cardinality(PeelObjects))
              /\ ~found.follow => found.val.val = start
        /\ \A start \in ResolvedHashes(found.name) :
              InfoOfHash(start).parent # found.val.val

\* the tag of the tag of a commit, peeled to the commit's tree
C18_Witness ==
    /\ found.kind = "return"
    /\ found.name = S_v2
    /\ found.fmt = PyBytes(B_tree)
    /\ found.follow
    /\ found.val = PyStr(HashOf(ObjectBytes(B_tree, CoSubtree)))


\* C19: when the resolved object is stored, its type is not the wanted one
\* and no dereference step applies to it (it is a blob or a tree, or a commit
\* while the wanted type is not tree), object_find with follow enabled ends
\* with an error; it returns None only with follow disabled.
C19_NoStepIsAnError ==
    (found.kind # "none" /\ found.fmt.kind = "bytes") =>
        \A start \in ResolvedHashes(found.name) :
            (/\ Cardinality(ResolvedHashes(found.name)) = 1
             /\ IsStored(start)
             /\ InfoOfHash(start).fmt # found.fmt.val
             /\ PeelStep(start, found.fmt.val) = NoHash)
            => /\ found.follow => found.kind # "return"
               /\ (found.kind = "return" /\ found.val = PyNone) => ~found.follow


(***************************************************************************)
(* The fields of a body as its lines give them: claim C20.                 *)
(***************************************************************************)
\* the lines before the blank line
HeaderOf(lines) ==
    SubSeq(lines, 1, (CHOOSE b \in 1..Len(lines) :
                         lines[b] = LineBlank /\ \A i \in 1..(b - 1) : lines[i] # LineBlank) - 1)

\* a line without its newline
Chomp(line) == SubSeq(line, 1, Len(line) - 1)

FirstSpace(line) == CHOOSE i \in 1..Len(line) : line[i] = SP /\ \A j \in 1..(i - 1) : line[j] # SP

\* the fields in file order: a key line opens a field, a continuation line
\* adds a newline and its text after the first space to the field before it
RECURSIVE FieldsOf(_)
FieldsOf(lines) ==
    IF lines = <<>> THEN <<>>
    ELSE LetIn(FieldsOf(SubSeq(lines, 1, Len(lines) - 1)), LAMBDA before :
         LetIn(lines[Len(lines)], LAMBDA line :
            IF line \in ContinuationLines
            THEN [before EXCEPT ![Len(before)].value = @ \o <<NL>> \o Tail(Chomp(line))]
            ELSE Append(before, [key |-> SubSeq(line, 1, FirstSpace(line) - 1),
                                 value |-> SubSeq(Chomp(line), FirstSpace(line) + 1,
                                                  Len(line) - 1)])))

\* the values of a key, in file order
RECURSIVE ValuesOf(_, _)
ValuesOf(fields, key) ==
    IF fields = <<>> THEN <<>>
    ELSE (IF Head(fields).key = key THEN <<Head(fields).value>> ELSE <<>>)
         \o ValuesOf(Tail(fields), key)

\* the keys, each once, in the order they are first seen
RECURSIVE FirstSeen(_)
FirstSeen(fields) ==
    IF fields = <<>> THEN <<>>
    ELSE LetIn(FirstSeen(SubSeq(fields, 1, Len(fields) - 1)), LAMBDA before :
            IF \E i \in 1..Len(before) : before[i] = fields[Len(fields)].key
            THEN before ELSE Append(before, fields[Len(fields)].key))

IsField(item) == ~item.isNone

\* C20: for a well-formed body kvlm_parse keeps every value of a repeated
\* key: a key that occurs n >= 2 times maps to the list of its n values in
\* file order, a key that occurs once to its value, the keys are in
\* first-seen order, and a continued value has one leading space taken from
\* each continued line and keeps its newlines.
C20_RepeatedKeysKept ==
    (kvPc \in {"parsed", "serialized"} /\ WellFormedBody(kvLines)) =>
        /\ kvParsed.kind = "dict"
        /\ LetIn(FieldsOf(HeaderOf(kvLines)), LAMBDA fields :
           LetIn(SelectSeq(kvParsed.dct, IsField), LAMBDA items :
              /\ [i \in 1..Len(items) |-> items[i].key] = FirstSeen(fields)
              /\ \A i \in 1..Len(items) :
                    /\ items[i].vals = ValuesOf(fields, items[i].key)
                    /\ items[i].isList <=> Len(items[i].vals) >= 2))

\* a key with two values, the first continued by an indented line
C20_Witness ==
    /\ kvPc = "parsed"
    /\ kvLines = <<LineKeyA, LineIndented, LineKeyB, LineBlank>>
    /\ kvParsed.kind = "dict"
    /\ kvParsed.dct[1].isList
    /\ kvParsed.dct[1].vals = <<<<97, NL, SP, 101>>, <<98>>>>


\* the 16-bit flags word of the staged entry j, as the file holds it
FlagsWord(j) ==
    LetIn(12 + EntryEnd(j - 1) + 60, LAMBDA off :
        256 * indexFile.val[off + 1] + indexFile.val[off + 2])

\* C21: for every entry index_read has decoded, the merge stage is the
\* two-bit number in bits 12-13 of the flags word, an integer in 0..3, and
\* the assume-valid flag is the truth value of bit 15.
C21_StageIsTwoBits ==
    \A j \in 1..Len(ix.entries) :
        /\ ix.entries[j].flag_stage \in 0..3
        /\ ix.entries[j].flag_stage = (FlagsWord(j) \div 4096) % 4
        /\ ix.entries[j].flag_assume_valid = (FlagsWord(j) \div 32768 = 1)


(***************************************************************************)
(* Termination of kvlm_parse: claim C22.                                   *)
(***************************************************************************)
\* the scan has moved forward in its last turn
ScanAdvances == kp.pc \in {"scan", "value"} => kp.prev < kp.end

ParseEnded == kp.pc = "done"

\* C22: kvlm_parse ends on every byte string, with a mapping or with an
\* error, and the scan for the end of a value never goes back to a position
\* it has passed.
C22_ParseTerminates == <>ParseEnded /\ []ScanAdvances

====
